---- MODULE Spec2Model ----
(***************************************************************************)
(* Curio: semantic search over posts and the similarity graph the client  *)
(* displays.                                                               *)
(*                                                                         *)
(* The vector store is the posts table with its pgvector column and the    *)
(* match_posts SQL function; the client is the React App component         *)
(* (loadGraphData, handleSearch, onConnect, ...) and CreatePost.           *)
(* The HTTP backend between the two (semantic-search and create-post       *)
(* endpoints, the embedding call) is modelled from the design document.    *)
(* The authentication utilities, the Login component, the edge overlay,    *)
(* the post modal and the layout of the graph have sections of their own.  *)
(*                                                                         *)
(* Similarities are fixed-point numbers in hundredths (0.25 is 25).  All   *)
(* modelled embeddings have Euclidean norm 5 (the provider returns         *)
(* normalised vectors), so every cosine similarity is an exact multiple    *)
(* of 4 hundredths and no rounding occurs.                                 *)
(***************************************************************************)
EXTENDS Integers, Sequences, FiniteSets, TLC

VARIABLES
    posts,        \* the posts table, rows in insertion order
    nn,           \* store level: outcome of the last direct store call
    lastVec,      \* store level: history, id -> last vector accepted by upsert
    searches,     \* semantic-search requests in flight, in the order they were issued
    create,       \* the CreatePost component and its create-post request
    acked,        \* ids of posts whose creation the client reported as successful
    nodes,        \* App state: nodes
    edges,        \* App state: edges
    isSearching,  \* App state: isSearching
    currentPage,  \* App state: currentPage
    lastCall,     \* history: what the last call of handleSearch or loadGraphData did
    edgeOverlay,  \* App state edgeOverlay, with the state of the EdgeOverlay component
    localStorage, \* the keys of localStorage the client uses
    isLoggedIn,   \* App state: isLoggedIn
    isLoading,    \* App state: isLoading
    authCall,     \* one invocation of authenticatedFetch or authenticatedXHR
    authCheck,    \* checkAuthStatus, run when the App is loaded
    logout,       \* one invocation of handleLogout
    login,        \* the Login component: one submission of the form
    layout,       \* the position loadGraphData gave to one post node
    submission,   \* the CreatePost component: its form and one run of handleSubmit
    postModal,    \* App state: isModalOpen and selectedPost
    latest        \* history: the search issued last, and what its response showed

vars == <<posts, nn, lastVec, searches, create, acked, nodes, edges,
          isSearching, currentPage, lastCall, edgeOverlay, localStorage,
          isLoggedIn, isLoading, authCall, authCheck, logout, login, layout,
          submission, postModal, latest>>

storeVars == <<posts, nn, lastVec>>
clientVars == <<nodes, edges, isSearching, currentPage, lastCall>>
\* the state of the components that take no part in search and creation
authVars == <<localStorage, isLoggedIn, isLoading, authCall, authCheck, logout, login>>
pageVars == <<submission, postModal, latest>>
\* the state outside search and creation that the history of searches leaves out
otherVars == <<edgeOverlay, authVars, layout, submission, postModal>>
auxVars == <<edgeOverlay, authVars, layout, pageVars>>
\* the state the direct store calls leave alone
nonStoreVars == <<searches, create, acked, clientVars, auxVars>>

----------------------------------------------------------------------------
(* Bounds of the model *)

\* dimension of the embedding column, scaled down from 1536
D == 2
\* at most this many posts are created through the create-post endpoint
MaxPosts == 2
\* at most this many rows when the store is driven directly
MaxRows == 3
\* at most this many semantic-search requests are in flight at a time
MaxSearches == 2
\* at most this many edges drawn by the user (onConnect) are in the graph
MaxConnects == 1

\* the edges of a graph over MaxPosts posts and the query node
MaxEdges == (MaxPosts * (MaxPosts + 1)) \div 2

----------------------------------------------------------------------------
(* Text *)

WS == " "

\* a text is a sequence of tokens: whitespace or a word
RECURSIVE TrimStart(_)
TrimStart(s) ==
    IF s # <<>> /\ Head(s) = WS THEN TrimStart(Tail(s)) ELSE s

RECURSIVE TrimEnd(_)
TrimEnd(s) ==
    IF s # <<>> /\ s[Len(s)] = WS THEN TrimEnd(SubSeq(s, 1, Len(s) - 1)) ELSE s

\* String.prototype.trim
Trim(s) == TrimEnd(TrimStart(s))

\* as IsBlank, without the trim: only the empty text counts as blank
IsBlankNoTrim(s) == s = <<>>

\* !query || !query.trim()  (undefined and '' are both falsy; <<>> stands for both)
IsBlank(s) == s = <<>> \/ Trim(s) = <<>>

\* texts typed into the search box (the searchQuery state of App)
Queries == { <<>>, <<WS>>, <<"pets">>, <<WS, "dogs">> }

\* contents of created posts
PostTexts == { <<"cats">>, <<"quantum">> }

----------------------------------------------------------------------------
(* Vectors and cosine similarity *)

NULL == <<>>

Pad(v, n) == [i \in 1..n |-> IF i <= Len(v) THEN v[i] ELSE 0]

\* the embedding of a word, before padding to the store's dimension
WordVec(w) ==
    CASE w = "pets"    -> <<5, 0>>
      [] w = "cats"    -> <<4, 3>>
      [] w = "dogs"    -> <<3, 4>>
      [] w = "quantum" -> <<-3, 4>>
      [] OTHER         -> <<0, 5>>

\* embed(text) -> vector[D]: deterministic, decided by the first word of the text
\* (a blank text has no defined embedding; the zero vector stands for it)
Embed(text) ==
    IF TrimStart(text) = <<>> THEN Pad(<<>>, D)
    ELSE Pad(WordVec(Head(TrimStart(text))), D)

\* vectors of the store's dimension: the ones stored, the ones queried with
StoredVectors == { Pad(WordVec(w), D) : w \in {"cats", "dogs", "quantum"} }

QueryVectors == { Pad(WordVec(w), D) : w \in {"pets", "dogs"} }

\* vectors of another dimension
WrongVectors == { Pad(<<3, 4>>, D + 1), Pad(<<5>>, D - 1) }

RECURSIVE DotUpTo(_, _, _)
DotUpTo(a, b, n) == IF n = 0 THEN 0 ELSE a[n] * b[n] + DotUpTo(a, b, n - 1)

Dot(a, b) == DotUpTo(a, b, Len(a))

ISqrt(n) == CHOOSE r \in 0..n : r * r <= n /\ n < (r + 1) * (r + 1)

\* 1 - (a <=> b), in hundredths
CosineSimilarity(a, b) == (100 * Dot(a, b)) \div ISqrt(Dot(a, a) * Dot(b, b))

\* a <=> b, the cosine distance, in hundredths
CosineDistance(a, b) == 100 - CosineSimilarity(a, b)

----------------------------------------------------------------------------
(* The vector store: posts.embedding and match_posts *)

\* the ids a post can have
PostIds == 1..(IF MaxRows > MaxPosts THEN MaxRows ELSE MaxPosts)

\* as ColumnAccepts, for a column declared without a dimension
ColumnAcceptsAny(v) == TRUE

\* embedding vector(D): the column accepts NULL and vectors of exactly D entries
ColumnAccepts(v) == v = NULL \/ Len(v) = D

RowOf(tbl, id) == CHOOSE i \in DOMAIN tbl : tbl[i].id = id

HasRow(tbl, id) == \E i \in DOMAIN tbl : tbl[i].id = id

\* as upsert, but a second upsert of an id adds a second entry
upsertInsert(tbl, id, content, v) ==
    IF ~ColumnAccepts(v) THEN tbl
    ELSE Append(tbl, [id |-> id, content |-> content, embedding |-> v])

\* upsert(post_id, vector): the table after the call; a vector the column
\* does not accept leaves the table as it was
upsert(tbl, id, content, v) ==
    IF ~ColumnAccepts(v) THEN tbl
    ELSE IF HasRow(tbl, id)
         THEN [tbl EXCEPT ![RowOf(tbl, id)].embedding = v]
         ELSE Append(tbl, [id |-> id, content |-> content, embedding |-> v])

\* as Eligible, with >= in place of >
EligibleAtLeast(tbl, q, match_threshold) ==
    { i \in DOMAIN tbl :
        /\ tbl[i].embedding # NULL
        /\ CosineSimilarity(tbl[i].embedding, q) >= match_threshold }

\* WHERE posts.embedding IS NOT NULL AND 1 - (embedding <=> q) > match_threshold
Eligible(tbl, q, match_threshold) ==
    { i \in DOMAIN tbl :
        /\ tbl[i].embedding # NULL
        /\ CosineSimilarity(tbl[i].embedding, q) > match_threshold }

\* all the sequences that list the elements of S once each
RECURSIVE Perms(_)
Perms(S) ==
    IF S = {} THEN { <<>> }
    ELSE UNION { { <<x>> \o p : p \in Perms(S \ {x}) } : x \in S }

\* ORDER BY posts.embedding <=> q: every order of the rows by ascending
\* distance; SQL leaves the order of rows of equal distance open
OrderByDistance(tbl, q, S) ==
    { p \in Perms(S) :
        \A i \in 1..Len(p) - 1 :
            CosineDistance(tbl[p[i]].embedding, q) <= CosineDistance(tbl[p[i + 1]].embedding, q) }

\* as Limit, without the LIMIT clause
LimitNone(p, match_count) == p

Min(a, b) == IF a <= b THEN a ELSE b

\* LIMIT match_count
Limit(p, match_count) == SubSeq(p, 1, Min(match_count, Len(p)))

\* the SELECT list: id, content and 1 - (embedding <=> q) AS similarity
SelectRow(tbl, q, i) ==
    [id |-> tbl[i].id, content |-> tbl[i].content,
     similarity |-> CosineSimilarity(tbl[i].embedding, q)]

\* match_posts(query_embedding, match_threshold, match_count): the results
\* the query can return
match_posts(tbl, q, match_threshold, match_count) ==
    { [k \in 1..Len(p) |-> SelectRow(tbl, q, p[k])] :
        p \in { Limit(o, match_count) :
                  o \in OrderByDistance(tbl, q, Eligible(tbl, q, match_threshold)) } }

\* similarity(id_a, id_b), from the stored vectors
similarity(tbl, a, b) ==
    CosineSimilarity(tbl[RowOf(tbl, a)].embedding, tbl[RowOf(tbl, b)].embedding)

----------------------------------------------------------------------------
(* Direct calls to the store *)

\* thresholds and counts passed to the store directly
StoreThresholds == { 25, 60 }

StoreCounts == { 1, 2 }

NoCall == [op |-> "none"]

Upsert(id, v) ==
    /\ id \in PostIds
    /\ HasRow(posts, id) \/ Len(posts) < MaxRows
    /\ posts' = upsert(posts, id, <<"cats">>, v)
    /\ nn' = [op |-> "upsert", id |-> id, vec |-> v,
              prev |-> IF HasRow(posts, id) THEN posts[RowOf(posts, id)].embedding
                       ELSE NULL,
              status |-> IF ColumnAccepts(v) THEN "ok" ELSE "DimensionMismatchError"]
    /\ lastVec' = IF ColumnAccepts(v) THEN [lastVec EXCEPT ![id] = v] ELSE lastVec

\* a row whose embedding has not been stored (yet)
InsertPost(id) ==
    /\ id \in PostIds
    /\ ~HasRow(posts, id)
    /\ Len(posts) < MaxRows
    /\ posts' = Append(posts, [id |-> id, content |-> <<"cats">>, embedding |-> NULL])
    /\ nn' = [op |-> "insert", id |-> id, status |-> "ok"]
    /\ UNCHANGED lastVec

\* the <=> operator raises an error on vectors of different dimensions
DimensionsAgree(tbl, q) ==
    \A i \in DOMAIN tbl : tbl[i].embedding # NULL => Len(tbl[i].embedding) = Len(q)

NearestNeighbors(q, k, threshold) ==
    /\ IF DimensionsAgree(posts, q)
       THEN \E r \in match_posts(posts, q, threshold, k) :
              nn' = [op |-> "nearestNeighbors", vec |-> q, k |-> k,
                     threshold |-> threshold, status |-> "ok", result |-> r]
       ELSE nn' = [op |-> "nearestNeighbors", vec |-> q, k |-> k,
                   threshold |-> threshold, status |-> "error", result |-> <<>>]
    /\ UNCHANGED <<posts, lastVec>>

----------------------------------------------------------------------------
(* The semantic-search endpoint *)

\* 'query_node', the id of the query node; post ids are 1, 2, ...
QUERY_NODE == 0

\* the request body the client sends: limit, threshold, edge_threshold
CLIENT_LIMIT == 50
CLIENT_THRESHOLD == 25
CLIENT_EDGE_THRESHOLD == 40

NoResponse == [status |-> "none", posts |-> <<>>, edges |-> <<>>]

EmptyGraph == [status |-> "ok", posts |-> <<>>, edges |-> <<>>]

ErrorResponse(kind) == [status |-> kind, posts |-> <<>>, edges |-> <<>>]

SearchRequest(from, query, limit, threshold, edge_threshold) ==
    [from |-> from, query |-> query, limit |-> limit, threshold |-> threshold,
     edge_threshold |-> edge_threshold, pc |-> "sent", embedCalls |-> 0,
     storeCalls |-> 0, resp |-> NoResponse]

\* requests of other callers of the endpoint
ApiRequests ==
    { SearchRequest("api", <<"dogs">>, 1, 25, 40),
      SearchRequest("api", <<"dogs">>, 50, 28, 100),
      SearchRequest("api", <<"pets">>, 50, 101, 40),
      SearchRequest("api", <<"pets">>, 50, 25, -1),
      SearchRequest("api", <<WS>>, 50, 25, 40) }

\* the endpoint's own test for an empty or whitespace-only query
QueryIsBlank(query) == \A i \in DOMAIN query : query[i] = WS

\* as ThresholdsValid, with the check of edge_threshold forgotten
ThresholdsValidMatchOnly(req) == 0 <= req.threshold /\ req.threshold <= 100

\* match_threshold and edge_threshold both lie in [0,1]
ThresholdsValid(req) ==
    /\ 0 <= req.threshold /\ req.threshold <= 100
    /\ 0 <= req.edge_threshold /\ req.edge_threshold <= 100

\* deterministic edge id: the pair of node ids and the handles it joins
EdgeId(kind, a, sourceHandle, b, targetHandle) ==
    <<kind, a, sourceHandle, b, targetHandle>>

ServerEdge(a, b, sim) ==
    [id |-> EdgeId("edge", a, "", b, ""), source |-> a, target |-> b,
     hasData |-> TRUE, similarity |-> sim]

\* fine stage: the pairs of candidates, in candidate order, whose stored
\* vectors are more similar than edge_threshold
RECURSIVE PairEdges(_, _, _, _, _)
PairEdges(tbl, cand, i, j, edge_threshold) ==
    IF i >= Len(cand) THEN <<>>
    ELSE IF j > Len(cand) THEN PairEdges(tbl, cand, i + 1, i + 2, edge_threshold)
    ELSE LET a == cand[i].id
             b == cand[j].id
             sim == similarity(tbl, a, b)
             lo == IF a < b THEN a ELSE b
             hi == IF a < b THEN b ELSE a
         IN (IF sim > edge_threshold THEN << ServerEdge(lo, hi, sim) >> ELSE <<>>)
            \o PairEdges(tbl, cand, i, j + 1, edge_threshold)

\* the query node and its edges to every matched post
QueryNode(query) ==
    [id |-> QUERY_NODE, is_query |-> TRUE, content |-> query, similarity |-> 100]

QueryEdges(cand) ==
    [k \in 1..Len(cand) |-> ServerEdge(QUERY_NODE, cand[k].id, cand[k].similarity)]

PostNodes(cand) ==
    [k \in 1..Len(cand) |->
        [id |-> cand[k].id, is_query |-> FALSE, content |-> cand[k].content,
         similarity |-> cand[k].similarity]]

\* the graph of one search, from the candidates of the coarse stage
BuildGraph(tbl, query, cand, edge_threshold) ==
    IF cand = <<>> THEN EmptyGraph
    ELSE [status |-> "ok",
          posts |-> << QueryNode(query) >> \o PostNodes(cand),
          edges |-> QueryEdges(cand) \o PairEdges(tbl, cand, 1, 2, edge_threshold)]

\* what became of one request: the response and the calls made for it
Outcome(req, resp, embedCalls, storeCalls) ==
    [req EXCEPT !.pc = "responded", !.resp = resp, !.embedCalls = embedCalls,
                !.storeCalls = storeCalls]

\* the request is turned down or answered before any provider or store call
AnsweredEarly(req) == ~ThresholdsValid(req) \/ QueryIsBlank(req.query)

EarlyOutcome(req) ==
    IF ~ThresholdsValid(req)
    THEN Outcome(req, ErrorResponse("ValidationError"), 0, 0)
    ELSE Outcome(req, EmptyGraph, 0, 0)

\* the endpoint serves one request: validate, embed, retrieve, refine, respond
ServerSearch(r) ==
    /\ r \in DOMAIN searches
    /\ searches[r].pc = "sent"
    /\ LET req == searches[r]
       IN IF AnsweredEarly(req)
          THEN searches' = [searches EXCEPT ![r] = EarlyOutcome(req)]
          ELSE \/ searches' = [searches EXCEPT ![r] =
                      Outcome(req, ErrorResponse("EmbeddingProviderError"), 1, 0)]
               \/ \E cand \in match_posts(posts, Embed(req.query), req.threshold,
                                           req.limit) :
                     searches' = [searches EXCEPT ![r] =
                         Outcome(req, BuildGraph(posts, req.query, cand,
                                                 req.edge_threshold), 1, 1)]
    /\ UNCHANGED <<storeVars, create, acked, clientVars>>

\* the sequence s without its r-th entry
Remove(s, r) == SubSeq(s, 1, r - 1) \o SubSeq(s, r + 1, Len(s))

\* the response reaches the caller
ApiReceive(r) ==
    /\ r \in DOMAIN searches
    /\ searches[r].from = "api"
    /\ searches[r].pc = "responded"
    /\ searches' = Remove(searches, r)
    /\ UNCHANGED <<storeVars, create, acked, clientVars>>

\* a caller other than the client sends a request
ApiSearch(req) ==
    /\ Len(searches) < MaxSearches
    /\ searches' = Append(searches, req)
    /\ UNCHANGED <<storeVars, create, acked, clientVars>>

----------------------------------------------------------------------------
(* The create-post endpoint and the CreatePost component *)

\* the fields of the form
Titles == { <<>>, <<"title">> }

Contents == PostTexts \cup { <<WS>> }

ClearGraph ==
    /\ nodes' = <<>>
    /\ edges' = <<>>

\* CreatePost.handleSubmit, up to the create-post request
handleSubmit(title, content, imageFile, uploadOk) ==
    /\ currentPage = "create-post"
    /\ create.pc = "idle"
    /\ Len(posts) < MaxPosts
    /\ create' =
         IF IsBlank(title) \/ IsBlank(content)
         THEN create
         ELSE IF imageFile /\ ~uploadOk
         THEN [create EXCEPT !.isSubmitting = FALSE]
         ELSE [create EXCEPT !.pc = "sent", !.isSubmitting = TRUE,
                             !.content = Trim(content)]
    /\ UNCHANGED <<storeVars, searches, acked, clientVars>>

\* the endpoint stores the row of the post; its embedding is not stored yet
ServerCreateInsert ==
    /\ create.pc = "sent"
    /\ LET id == Len(posts) + 1
       IN /\ posts' = Append(posts, [id |-> id, content |-> create.content,
                                     embedding |-> NULL])
          /\ create' = [create EXCEPT !.pc = "inserted", !.id = id]
    /\ UNCHANGED <<nn, lastVec, searches, acked, clientVars>>

\* the endpoint embeds the text and upserts the vector, then acknowledges;
\* when the provider fails the caller is told so and the post stays unsearchable
ServerCreateEmbed ==
    /\ create.pc = "inserted"
    /\ \/ /\ posts' = upsert(posts, create.id, create.content, Embed(create.content))
          /\ lastVec' = [lastVec EXCEPT ![create.id] = Embed(create.content)]
          /\ create' = [create EXCEPT !.pc = "responded", !.ok = TRUE]
       \/ /\ create' = [create EXCEPT !.pc = "responded", !.ok = FALSE]
          /\ UNCHANGED <<posts, lastVec>>
    /\ UNCHANGED <<nn, searches, acked, clientVars>>

\* the endpoint turns the request down before storing anything
ServerCreateReject ==
    /\ create.pc = "sent"
    /\ create' = [create EXCEPT !.pc = "responded", !.ok = FALSE, !.id = 0]
    /\ UNCHANGED <<storeVars, searches, acked, clientVars>>

\* as CreateSucceeded, without the check of response.ok
CreateSucceededAlways(resp) == TRUE

\* handleSubmit: !response.ok throws, everything else is a success
CreateSucceeded(resp) == resp.ok

\* CreatePost.handleSubmit, from the response on
ReceiveCreateResponse ==
    /\ create.pc = "responded"
    /\ IF CreateSucceeded(create)
       THEN /\ create' = [create EXCEPT !.pc = "created", !.isSubmitting = FALSE]
            /\ acked' = acked \cup {create.id}
       ELSE /\ create' = [create EXCEPT !.pc = "idle", !.isSubmitting = FALSE]
            /\ UNCHANGED acked
    /\ UNCHANGED <<storeVars, searches, clientVars>>

----------------------------------------------------------------------------
(* The App component: search and graph *)

\* post.id === 'query_node' || post.is_query
IsQueryPost(post) == post.id = QUERY_NODE \/ post.is_query

\* as IsActualPost, without the exclusion of the query node
IsActualPostAny(post) == TRUE

\* post.id !== 'query_node' && !post.is_query
IsActualPost(post) == ~IsQueryPost(post)

\* data.posts.find(...): the first query post, if any
QueryPosts(data) == SelectSeq(data.posts, IsQueryPost)

\* data.posts.filter(...)
ActualPosts(data) == SelectSeq(data.posts, IsActualPost)

\* as GraphNodes, without the query node
GraphNodesNoQuery(data) ==
    [k \in 1..Len(SelectSeq(data.posts, IsActualPost)) |->
        [id |-> SelectSeq(data.posts, IsActualPost)[k].id, query |-> FALSE]]

\* graphNodes: one node per actual post, the query node put in front
GraphNodes(data) ==
    (IF QueryPosts(data) # <<>>
     THEN << [id |-> Head(QueryPosts(data)).id, query |-> TRUE] >>
     ELSE <<>>)
    \o [k \in 1..Len(ActualPosts(data)) |->
          [id |-> ActualPosts(data)[k].id, query |-> FALSE]]

\* as GraphEdge, with the distance stored in place of the similarity
GraphEdgeDistance(edge) ==
    [id |-> edge.id, source |-> edge.source, target |-> edge.target,
     sourceHandle |-> "", targetHandle |-> "",
     hasData |-> TRUE, similarity |-> 100 - edge.similarity]

\* one entry of data.edges.map(...)
GraphEdge(edge) ==
    [id |-> edge.id, source |-> edge.source, target |-> edge.target,
     sourceHandle |-> "", targetHandle |-> "",
     hasData |-> TRUE, similarity |-> edge.similarity]

\* graphEdges
GraphEdges(data) == [k \in 1..Len(data.edges) |-> GraphEdge(data.edges[k])]

\* loadGraphData(query), up to the semantic-search request
loadGraphData(query) ==
    IF IsBlank(query)
    THEN /\ ClearGraph
         /\ isSearching' = FALSE
         /\ lastCall' = "loadGraphData: no query"
         /\ UNCHANGED searches
    ELSE /\ Len(searches) < MaxSearches
         /\ isSearching' = TRUE
         /\ lastCall' = "loadGraphData: request"
         /\ searches' = Append(searches,
                SearchRequest("client", query, CLIENT_LIMIT, CLIENT_THRESHOLD,
                              CLIENT_EDGE_THRESHOLD))
         /\ UNCHANGED <<nodes, edges>>

\* handleSearch (the search button and the Enter key), with the text the
\* search box holds at that moment
handleSearch(searchQuery) ==
    /\ currentPage = "home"
    /\ IF ~IsBlank(searchQuery)
       THEN loadGraphData(searchQuery)
       ELSE /\ lastCall' = "handleSearch: no query"
            /\ UNCHANGED <<searches, nodes, edges, isSearching>>
    /\ UNCHANGED <<storeVars, create, acked, currentPage>>

\* handleClearSearch
handleClearSearch ==
    /\ currentPage = "home"
    /\ loadGraphData(<<>>)
    /\ UNCHANGED <<storeVars, create, acked, currentPage>>

\* the fetch of loadGraphData fails: the request gets no answer of the endpoint
FetchFails(r) ==
    /\ r \in DOMAIN searches
    /\ searches[r].from = "client"
    /\ searches[r].pc = "sent"
    /\ searches' = [searches EXCEPT ![r].pc = "responded",
                                    ![r].resp = ErrorResponse("NetworkError")]
    /\ UNCHANGED <<storeVars, create, acked, clientVars>>

\* as LoadGraphDataResponse, with the displayed graph kept when the response
\* holds no posts
LoadGraphDataResponseKeep(r) ==
    /\ r \in DOMAIN searches
    /\ searches[r].from = "client"
    /\ searches[r].pc = "responded"
    /\ searches' = Remove(searches, r)
    /\ IF searches[r].resp.status = "ok" /\ Len(searches[r].resp.posts) # 0
       THEN /\ nodes' = GraphNodes(searches[r].resp)
            /\ edges' = GraphEdges(searches[r].resp)
       ELSE UNCHANGED <<nodes, edges>>
    /\ isSearching' = FALSE
    /\ UNCHANGED <<storeVars, create, acked, currentPage, lastCall>>

\* loadGraphData, from the response on
LoadGraphDataResponse(r) ==
    /\ r \in DOMAIN searches
    /\ searches[r].from = "client"
    /\ searches[r].pc = "responded"
    /\ searches' = Remove(searches, r)
    /\ IF searches[r].resp.status = "ok"
       THEN IF Len(searches[r].resp.posts) = 0
            THEN ClearGraph
            ELSE /\ nodes' = GraphNodes(searches[r].resp)
                 /\ edges' = GraphEdges(searches[r].resp)
       ELSE UNCHANGED <<nodes, edges>>
    /\ isSearching' = FALSE
    /\ UNCHANGED <<storeVars, create, acked, currentPage, lastCall>>

\* reactflow: connectionExists(edge, edges)
connectionExists(edge, eds) ==
    \E k \in DOMAIN eds :
        /\ eds[k].source = edge.source
        /\ eds[k].target = edge.target
        /\ eds[k].sourceHandle = edge.sourceHandle
        /\ eds[k].targetHandle = edge.targetHandle

\* reactflow: addEdge(params, eds)
addEdge(params, eds) ==
    LET edge == [id |-> EdgeId("reactflow__edge", params.source, params.sourceHandle,
                               params.target, params.targetHandle),
                 source |-> params.source, target |-> params.target,
                 sourceHandle |-> params.sourceHandle,
                 targetHandle |-> params.targetHandle,
                 hasData |-> FALSE, similarity |-> 0]
    IN IF connectionExists(edge, eds) THEN eds ELSE Append(eds, edge)

NodeIds == { nodes[k].id : k \in DOMAIN nodes }

\* onConnect: the user draws a connection between two handles
onConnect(params) ==
    /\ currentPage = "home"
    /\ Cardinality({ k \in DOMAIN edges : ~edges[k].hasData }) < MaxConnects
    /\ params.source \in NodeIds
    /\ params.target \in NodeIds
    /\ edges' = addEdge(params, edges)
    /\ UNCHANGED <<storeVars, searches, create, acked, nodes, isSearching,
                   currentPage, lastCall>>

\* handleBackToHome
handleBackToHome ==
    /\ currentPage' = "home"
    /\ ClearGraph
    /\ UNCHANGED <<storeVars, searches, create, acked, isSearching, lastCall>>

\* setTimeout(onPostCreated, 1500): App.handlePostCreated, whose
\* loadGraphData() without a query clears the graph
handlePostCreated ==
    /\ create.pc = "created"
    /\ create' = [create EXCEPT !.pc = "idle"]
    /\ currentPage' = "home"
    /\ loadGraphData(<<>>)
    /\ UNCHANGED <<storeVars, acked>>

\* handleNavigateToCreatePost
handleNavigateToCreatePost ==
    /\ currentPage = "home"
    /\ currentPage' = "create-post"
    /\ UNCHANGED <<storeVars, searches, create, acked, nodes, edges, isSearching,
                   lastCall>>

----------------------------------------------------------------------------
(* The EdgeOverlay component: relationship details of an edge *)

\* useState of edgeOverlay, and of relationshipDetails and isLoading
ClosedOverlay ==
    [isOpen |-> FALSE, similarity |-> 0, post1Id |-> 0, post2Id |-> 0,
     pc |-> "idle", isLoading |-> FALSE, relationshipDetails |-> "null"]

\* onEdgeClick, and the effect of EdgeOverlay that follows the change of
\* isOpen, post1Id and post2Id: fetchRelationshipDetails up to the request.
\* The open overlay covers the graph, so edges are clicked while it is closed.
onEdgeClick(k) ==
    /\ currentPage = "home"
    /\ k \in DOMAIN edges
    /\ ~edgeOverlay.isOpen
    /\ edgeOverlay.pc = "idle"
    /\ edgeOverlay' =
         IF edges[k].source = QUERY_NODE \/ edges[k].target = QUERY_NODE
         THEN edgeOverlay
         ELSE IF ~edges[k].hasData
         THEN edgeOverlay
         ELSE [edgeOverlay EXCEPT !.isOpen = TRUE,
                                  !.similarity = edges[k].similarity,
                                  !.post1Id = edges[k].source,
                                  !.post2Id = edges[k].target,
                                  !.pc = "sent",
                                  !.isLoading = TRUE]
    /\ UNCHANGED <<storeVars, searches, create, acked, clientVars>>

\* the outcomes of the relationship-details request: an ok response, an
\* error response, or a failed fetch
RelationshipOutcomes == { "ok", "error", "network" }

\* as fetchRelationshipDetails, with the graph cleared when the request fails
fetchRelationshipDetailsClear(outcome) ==
    /\ edgeOverlay.pc = "sent"
    /\ edgeOverlay' =
         [edgeOverlay EXCEPT !.pc = "idle", !.isLoading = FALSE,
              !.relationshipDetails = IF outcome = "ok" THEN "details" ELSE @]
    /\ IF outcome = "ok" THEN UNCHANGED <<nodes, edges>> ELSE ClearGraph
    /\ UNCHANGED <<storeVars, searches, create, acked, isSearching, currentPage,
                   lastCall>>

\* fetchRelationshipDetails, from the response on
fetchRelationshipDetails(outcome) ==
    /\ edgeOverlay.pc = "sent"
    /\ edgeOverlay' =
         [edgeOverlay EXCEPT !.pc = "idle", !.isLoading = FALSE,
              !.relationshipDetails = IF outcome = "ok" THEN "details" ELSE @]
    /\ UNCHANGED <<storeVars, searches, create, acked, clientVars>>

\* handleCloseEdgeOverlay
handleCloseEdgeOverlay ==
    /\ edgeOverlay.isOpen
    /\ edgeOverlay' = [edgeOverlay EXCEPT !.isOpen = FALSE, !.similarity = 0,
                                          !.post1Id = 0, !.post2Id = 0]
    /\ UNCHANGED <<storeVars, searches, create, acked, clientVars>>

----------------------------------------------------------------------------
(* Authentication utilities: refreshAccessToken, authenticatedFetch,
   authenticatedXHR and clearAuthData *)

\* localStorage.getItem of a key that is not stored
Absent == "null"

\* the value counts as true in a condition
Truthy(v) == v # Absent /\ v # ""

Storage(access_token, refresh_token, user_id, cached_profile) ==
    [access_token |-> access_token, refresh_token |-> refresh_token,
     user_id |-> user_id, cached_profile |-> cached_profile]

\* what localStorage can hold when the App is loaded
InitialStorages ==
    { Storage(a, r, u, c) : a \in {Absent, "t1"}, r \in {Absent, "r1"},
                            u \in {Absent, "u1"}, c \in {Absent, "p1"} }

\* as RemoveTokens, with the access token as the only key removed
RemoveAccessTokenOnly(store) == [store EXCEPT !.access_token = Absent]

\* removeItem of access_token, refresh_token and user_id
RemoveTokens(store) ==
    [store EXCEPT !.access_token = Absent, !.refresh_token = Absent,
                  !.user_id = Absent]

\* clearAuthData
clearAuthData(store) == Storage(Absent, Absent, Absent, Absent)

\* the outcomes of the request to /api/auth/refresh: the fetch fails, the
\* response is not ok, its body is no JSON, or its body is the JSON null, the
\* JSON 0, an object without the token fields, or an object with them; a
\* missing field reads as undefined and is stored as the text "undefined"
RefreshOutcomes ==
    { [kind |-> k, access_token |-> "undefined", refresh_token |-> "undefined",
       user_id |-> "undefined"] : k \in {"network", "notok", "invalid", "null", "zero", "object"} }
    \cup { [kind |-> "object", access_token |-> "t2", refresh_token |-> "r2",
            user_id |-> "u1"] }

\* the state of a call before it starts
IdleCall ==
    [kind |-> "fetch", pc |-> "idle", token |-> Absent, sent |-> 0,
     refreshCalls |-> 0, firstStatus |-> 0, refreshReturn |-> "none",
     refreshed |-> Absent, retryToken |-> Absent, result |-> "none"]

\* authenticatedFetch and authenticatedXHR, up to the first request
StartCall(kind) ==
    /\ ~isLoading
    /\ authCall.pc \in {"idle", "done"}
    /\ authCall' =
         IF ~Truthy(localStorage.access_token)
         THEN [IdleCall EXCEPT !.kind = kind, !.pc = "done", !.result = "thrown"]
         ELSE [IdleCall EXCEPT !.kind = kind, !.pc = "request", !.sent = 1,
                               !.token = localStorage.access_token]
    /\ UNCHANGED <<storeVars, searches, create, acked, clientVars, edgeOverlay,
                   localStorage, isLoggedIn, isLoading, authCheck, logout, login,
                   layout, pageVars>>

authenticatedFetch == StartCall("fetch")

authenticatedXHR == StartCall("xhr")

\* what the caller gets for a response that is not 401: authenticatedFetch
\* returns every response, authenticatedXHR resolves on 2xx only; status 0
\* stands for a request that failed without a response
ResultOf(kind, status) ==
    IF status = 0 THEN "thrown"
    ELSE IF kind = "fetch" THEN "returned"
    ELSE IF status >= 200 /\ status < 300 THEN "returned"
    ELSE "thrown"

\* the first response arrives; on 401 refreshAccessToken starts: it returns
\* null at once when no refresh token is stored, else it sends its request
FirstResponse(status) ==
    /\ authCall.pc = "request"
    /\ authCall' =
         IF status # 401
         THEN [authCall EXCEPT !.pc = "done", !.firstStatus = status,
                               !.result = ResultOf(authCall.kind, status)]
         ELSE IF ~Truthy(localStorage.refresh_token)
         THEN [authCall EXCEPT !.pc = "refreshed", !.firstStatus = status,
                               !.refreshReturn = "null"]
         ELSE [authCall EXCEPT !.pc = "refresh", !.firstStatus = status,
                               !.refreshCalls = @ + 1]
    /\ UNCHANGED <<storeVars, searches, create, acked, clientVars, edgeOverlay,
                   localStorage, isLoggedIn, isLoading, authCheck, logout, login,
                   layout, pageVars>>

\* refreshAccessToken, from the response of /api/auth/refresh on
refreshAccessToken(outcome) ==
    /\ authCall.pc = "refresh"
    /\ IF outcome.kind \in {"network", "notok", "invalid", "null"}
       THEN /\ authCall' = [authCall EXCEPT !.pc = "refreshed", !.refreshReturn = "null"]
            /\ UNCHANGED localStorage
       ELSE /\ localStorage' =
                 [localStorage EXCEPT !.access_token = outcome.access_token,
                                      !.refresh_token = outcome.refresh_token,
                                      !.user_id = outcome.user_id]
            /\ authCall' = [authCall EXCEPT !.pc = "refreshed",
                                            !.refreshReturn = outcome.kind,
                                            !.refreshed = outcome.access_token]
    /\ UNCHANGED <<storeVars, searches, create, acked, clientVars, edgeOverlay,
                   isLoggedIn, isLoading, authCheck, logout, login, layout, pageVars>>

\* as RetryToken, with the token of the first request sent again
RetryTokenStale(call) == call.token

\* the Authorization header of the second request: refreshResult.access_token
RetryToken(call) == call.refreshed

\* the call goes on with the result of refreshAccessToken: it sends the
\* request again, or removes the tokens and fails
AfterRefresh ==
    /\ authCall.pc = "refreshed"
    /\ IF authCall.refreshReturn = "object"
       THEN /\ authCall' = [authCall EXCEPT !.pc = "retry", !.sent = @ + 1,
                                            !.retryToken = RetryToken(authCall)]
            /\ UNCHANGED localStorage
       ELSE /\ authCall' = [authCall EXCEPT !.pc = "done", !.result = "thrown"]
            /\ localStorage' = IF authCall.kind = "fetch"
                               THEN RemoveTokens(localStorage)
                               ELSE clearAuthData(localStorage)
    /\ UNCHANGED <<storeVars, searches, create, acked, clientVars, edgeOverlay,
                   isLoggedIn, isLoading, authCheck, logout, login, layout, pageVars>>

\* the response of the second request arrives: it is the result, whatever
\* its status
RetryResponse(status) ==
    /\ authCall.pc = "retry"
    /\ authCall' = [authCall EXCEPT !.pc = "done",
                                    !.result = ResultOf(authCall.kind, status)]
    /\ UNCHANGED <<storeVars, searches, create, acked, clientVars, edgeOverlay,
                   localStorage, isLoggedIn, isLoading, authCheck, logout, login,
                   layout, pageVars>>

\* the statuses of the responses: ok, unauthorized, server error, and 0 for
\* a request that failed without a response
Statuses == { 200, 401, 500, 0 }

----------------------------------------------------------------------------
(* The App component: authentication state *)

\* as RemoveSession, with user_id left in localStorage
RemoveSessionTokenOnly(store) == [store EXCEPT !.access_token = Absent]

\* removeItem of access_token and user_id
RemoveSession(store) == [store EXCEPT !.access_token = Absent, !.user_id = Absent]

\* the effect on currentPage: the graph is cleared when the home page is entered
EnterHome ==
    /\ currentPage' = "home"
    /\ IF currentPage # "home" THEN ClearGraph ELSE UNCHANGED <<nodes, edges>>

\* checkAuthStatus, up to the request to /api/auth/profile
checkAuthStatus ==
    /\ authCheck.pc = "start"
    /\ IF Truthy(localStorage.access_token) /\ Truthy(localStorage.user_id)
       THEN /\ authCheck' = [authCheck EXCEPT !.pc = "request",
                                              !.token = localStorage.access_token]
            /\ UNCHANGED <<isLoggedIn, isLoading>>
       ELSE /\ authCheck' = [authCheck EXCEPT !.pc = "done"]
            /\ isLoggedIn' = FALSE
            /\ isLoading' = FALSE
    /\ UNCHANGED <<storeVars, searches, create, acked, clientVars, edgeOverlay,
                   localStorage, authCall, logout, login, layout, pageVars>>

\* as LogsOutOn, for every response that is not ok
LogsOutOnNotOk(status) == status # 0 /\ ~(status >= 200 /\ status < 300)

\* the response for which checkAuthStatus removes the session
LogsOutOn(status) == status = 401

\* checkAuthStatus, from the response (or the failure of the fetch) on
checkAuthStatusResponse(status) ==
    /\ authCheck.pc = "request"
    /\ authCheck' = [authCheck EXCEPT !.pc = "done", !.status = status]
    /\ IF LogsOutOn(status)
       THEN /\ localStorage' = RemoveSession(localStorage)
            /\ isLoggedIn' = FALSE
       ELSE /\ UNCHANGED localStorage
            /\ isLoggedIn' = TRUE
    /\ isLoading' = FALSE
    /\ UNCHANGED <<storeVars, searches, create, acked, clientVars, edgeOverlay,
                   authCall, logout, login, layout, pageVars>>

\* handleLogout, the part after the logout request: remove the session and
\* update the state
FinishLogout ==
    /\ localStorage' = RemoveSession(localStorage)
    /\ isLoggedIn' = FALSE
    /\ EnterHome

\* handleLogout, up to the request to /api/auth/logout; without a token it
\* sends no request
handleLogout ==
    /\ ~isLoading
    /\ logout.pc \in {"idle", "done"}
    /\ IF Truthy(localStorage.access_token)
       THEN /\ logout' = [pc |-> "request", sent |-> TRUE, outcome |-> -1]
            /\ UNCHANGED <<localStorage, isLoggedIn, nodes, edges, currentPage>>
       ELSE /\ logout' = [pc |-> "done", sent |-> FALSE, outcome |-> -1]
            /\ FinishLogout
    /\ UNCHANGED <<storeVars, searches, create, acked, isSearching, lastCall,
                   edgeOverlay, isLoading, authCall, authCheck, login, layout, pageVars>>

\* handleLogout, from the response (or the failure of the fetch) on
handleLogoutResponse(status) ==
    /\ logout.pc = "request"
    /\ logout' = [logout EXCEPT !.pc = "done", !.outcome = status]
    /\ FinishLogout
    /\ UNCHANGED <<storeVars, searches, create, acked, isSearching, lastCall,
                   edgeOverlay, isLoading, authCall, authCheck, login, layout, pageVars>>

\* handleNavigateToLogin, handleNavigateToProfile
handleNavigateToLogin ==
    /\ ~isLoading
    /\ currentPage' = "login"
    /\ UNCHANGED <<storeVars, searches, create, acked, nodes, edges, isSearching,
                   lastCall>>

handleNavigateToProfile ==
    /\ ~isLoading
    /\ currentPage' = "profile"
    /\ UNCHANGED <<storeVars, searches, create, acked, nodes, edges, isSearching,
                   lastCall>>

\* handleLogin, the onLogin of the Login component
handleLogin ==
    /\ isLoggedIn' = TRUE
    /\ EnterHome

----------------------------------------------------------------------------
(* The Login component *)

\* the texts of the email and password fields, as sequences of characters
Emails ==
    { <<>>, <<WS>>, <<"a", "@", "b">>, <<"a", "@", "b", ".", "c">>,
      <<WS, "a", "@", "b", ".", "c">> }

Passwords == { <<>>, <<"p">> }

\* /\S+@\S+\.\S+/.test(email): somewhere in the text, an "@" after a
\* character that is no whitespace, then characters that are no whitespace,
\* the last of them followed by a "." and one more such character
MatchesEmail(email) ==
    \E i, j \in DOMAIN email :
        /\ email[i] = "@"
        /\ i > 1 /\ email[i - 1] # WS
        /\ j > i + 1
        /\ email[j] = "."
        /\ \A k \in (i + 1)..(j - 1) : email[k] # WS
        /\ j < Len(email) /\ email[j + 1] # WS

\* validateForm
validateForm(email, password) ==
    /\ Trim(email) # <<>>
    /\ MatchesEmail(email)
    /\ password # <<>>

LoginOutcome(kind, status, access_token, user_id) ==
    [kind |-> kind, status |-> status, access_token |-> access_token,
     user_id |-> user_id]

\* the outcomes of the request to /api/auth/login: the fetch fails, the body
\* is no JSON, the body is the JSON null, an error response with a JSON
\* object, or an ok response with a JSON object that has or lacks
\* access_token and user_id
LoginOutcomes ==
    { LoginOutcome(k, 200, Absent, Absent) : k \in {"network", "invalid", "null"} }
    \cup { LoginOutcome("object", st, "t3", "u2") : st \in {400, 401, 404, 500} }
    \cup { LoginOutcome("object", 200, a, u) : a \in {Absent, "t3"}, u \in {Absent, "u2"} }

\* as LoginSucceeds, without the check of the response data
LoginSucceedsOnOk(outcome) ==
    outcome.kind = "object" /\ outcome.status >= 200 /\ outcome.status < 300

\* the response is ok and its data hold access_token and user_id
LoginSucceeds(outcome) ==
    /\ outcome.kind = "object"
    /\ outcome.status >= 200 /\ outcome.status < 300
    /\ Truthy(outcome.access_token)
    /\ Truthy(outcome.user_id)

NoLoginOutcome == LoginOutcome("none", 0, Absent, Absent)

IdleLogin ==
    [pc |-> "idle", email |-> <<>>, password |-> <<>>, outcome |-> NoLoginOutcome,
     onLogin |-> FALSE]

\* Login.handleSubmit, up to the request to /api/auth/login
LoginSubmit(email, password) ==
    /\ currentPage = "login"
    /\ login.pc = "idle"
    /\ login' = [IdleLogin EXCEPT !.email = email, !.password = password,
                     !.pc = IF validateForm(email, password) THEN "request" ELSE "idle"]
    /\ UNCHANGED <<storeVars, searches, create, acked, clientVars, edgeOverlay,
                   localStorage, isLoggedIn, isLoading, authCall, authCheck, logout,
                   layout, pageVars>>

\* Login.handleSubmit, from the response (or the failure of the fetch) on
LoginResponse(outcome) ==
    /\ login.pc = "request"
    /\ IF LoginSucceeds(outcome)
       THEN /\ localStorage' = [localStorage EXCEPT
                                    !.access_token = outcome.access_token,
                                    !.user_id = outcome.user_id]
            /\ login' = [login EXCEPT !.pc = "stored", !.outcome = outcome]
       ELSE /\ UNCHANGED localStorage
            /\ login' = [login EXCEPT !.pc = "idle", !.outcome = outcome]
    /\ UNCHANGED <<storeVars, searches, create, acked, clientVars, edgeOverlay,
                   isLoggedIn, isLoading, authCall, authCheck, logout, layout, pageVars>>

\* the timer of handleSubmit calls onLogin, 1500 ms after the tokens were stored
LoginTimer ==
    /\ login.pc = "stored"
    /\ login' = [login EXCEPT !.pc = "idle", !.onLogin = TRUE]
    /\ handleLogin
    /\ UNCHANGED <<storeVars, searches, create, acked, isSearching, lastCall,
                   edgeOverlay, localStorage, isLoading, authCall, authCheck,
                   logout, layout, pageVars>>

----------------------------------------------------------------------------
(* The CreatePost component in detail: handleSubmit with its image upload.
   SpecCreate above folds the upload into one step and follows the post into
   the store; here every await of handleSubmit is a step and the two
   endpoints are the environment *)

\* at most this many timers of onPostCreated are pending at a time
MaxTimers == 2

\* useState of the CreatePost component when it is mounted. upload and
\* response are the outcomes the run of handleSubmit in progress has met,
\* requests counts its create-post requests, timers counts the pending
\* setTimeout calls of onPostCreated and called says that one has fired
IdleSubmission ==
    [pc |-> "idle", title |-> <<>>, content |-> <<>>, imageFile |-> FALSE,
     isSubmitting |-> FALSE, isUploading |-> FALSE, upload |-> "none",
     imageUrl |-> "null", requests |-> 0, response |-> "none",
     timers |-> 0, called |-> FALSE]

\* the outcomes of the upload request: a failed fetch, a response that is not
\* ok, an ok response with an empty body, with a body that is no JSON, with
\* the JSON value null, with an object without image_url, with an image_url
UploadOutcomes == { "network", "notok", "empty", "invalid", "null", "nourl", "url" }

\* as UploadThrows, with only the failed fetch taken as a failure
UploadThrowsOnNetwork(outcome) == outcome = "network"

\* uploadImage throws: fetch rejects, !response.ok, an empty responseText,
\* JSON.parse throws, or data is null and data.image_url throws
UploadThrows(outcome) == outcome \in { "network", "notok", "empty", "invalid", "null" }

\* the outcomes of the create-post request: a failed fetch, a response that
\* is not ok, an ok response with an empty body, with a body that is no JSON,
\* with a JSON body
CreateOutcomes == { "network", "notok", "empty", "invalid", "ok" }

\* handleSubmit throws after the create-post request
CreateThrows(outcome) == outcome # "ok"

\* the App shows the CreatePost page: a new component with its initial state.
\* One component is followed at a time: the one before has finished its work
MountCreatePost ==
    /\ handleNavigateToCreatePost
    /\ submission.pc = "idle"
    /\ submission.timers = 0
    /\ submission' = IdleSubmission
    /\ UNCHANGED <<edgeOverlay, authVars, layout, postModal, latest>>

\* handleSubmit with the form filled as given, up to its first request: the
\* controls of the form are disabled while isSubmitting or isUploading
handleSubmitStart(title, content, imageFile) ==
    /\ currentPage = "create-post"
    /\ submission.pc = "idle"
    /\ submission.timers < MaxTimers
    /\ submission' =
         IF IsBlank(title) \/ IsBlank(content)
         THEN [submission EXCEPT !.title = title, !.content = content,
                                 !.imageFile = imageFile, !.upload = "none",
                                 !.imageUrl = "null", !.requests = 0,
                                 !.response = "none"]
         ELSE IF imageFile
         THEN [submission EXCEPT !.title = title, !.content = content,
                                 !.imageFile = imageFile, !.upload = "none",
                                 !.imageUrl = "null", !.requests = 0,
                                 !.response = "none", !.pc = "uploading",
                                 !.isSubmitting = TRUE, !.isUploading = TRUE]
         ELSE [submission EXCEPT !.title = title, !.content = content,
                                 !.imageFile = imageFile, !.upload = "none",
                                 !.imageUrl = "null", !.requests = 1,
                                 !.response = "none", !.pc = "creating",
                                 !.isSubmitting = TRUE]
    /\ UNCHANGED <<storeVars, searches, create, acked, clientVars, edgeOverlay,
                   authVars, layout, postModal, latest>>

\* uploadImage, from the response on, and handleSubmit up to the create-post
\* request: a throw of uploadImage ends handleSubmit through its finally block
uploadImage(outcome) ==
    /\ submission.pc = "uploading"
    /\ submission' =
         IF UploadThrows(outcome)
         THEN [submission EXCEPT !.upload = outcome, !.isUploading = FALSE,
                                 !.isSubmitting = FALSE, !.pc = "idle"]
         ELSE [submission EXCEPT !.upload = outcome, !.isUploading = FALSE,
                                 !.imageUrl = IF outcome = "url" THEN "url"
                                              ELSE "undefined",
                                 !.requests = @ + 1, !.pc = "creating"]
    /\ UNCHANGED <<storeVars, searches, create, acked, clientVars, edgeOverlay,
                   authVars, layout, postModal, latest>>

\* handleSubmit, from the response of the create-post request on
handleSubmitResponse(outcome) ==
    /\ submission.pc = "creating"
    /\ submission' =
         IF CreateThrows(outcome)
         THEN [submission EXCEPT !.response = outcome, !.isSubmitting = FALSE,
                                 !.pc = "idle"]
         ELSE [submission EXCEPT !.response = outcome, !.isSubmitting = FALSE,
                                 !.pc = "idle", !.title = <<>>,
                                 !.content = <<>>, !.imageFile = FALSE,
                                 !.timers = @ + 1]
    /\ UNCHANGED <<storeVars, searches, create, acked, clientVars, edgeOverlay,
                   authVars, layout, postModal, latest>>

\* setTimeout(() => onPostCreated(), 1500): App.handlePostCreated shows the
\* home page and calls loadGraphData()
onPostCreated ==
    /\ submission.timers > 0
    /\ submission' = [submission EXCEPT !.timers = @ - 1, !.called = TRUE]
    /\ currentPage' = "home"
    /\ loadGraphData(<<>>)
    /\ UNCHANGED <<storeVars, create, acked, edgeOverlay, authVars, layout,
                   postModal, latest>>

----------------------------------------------------------------------------
(* The post modal of the App: onNodeClick, handleCardClick, handleCloseModal *)

\* selectedPost === null
NoPost == -1

\* useState of isModalOpen and selectedPost
ClosedModal == [isModalOpen |-> FALSE, selectedPost |-> NoPost]

\* 'query-root', the second id that onNodeClick and PostCardNode take for a
\* query node
QUERY_ROOT == -2

\* a reserved id that the client's code does not name
QUERY_OTHER == -3

\* the ids the endpoint may reserve for the query node: the response marks
\* the query node with is_query, and its id is any id that no post has
QueryNodeIds == { QUERY_NODE, QUERY_OTHER }

\* the graph with its query node, and the edges of the query node, under the
\* reserved id qid
WithQueryId(resp, qid) ==
    [status |-> resp.status,
     posts |-> [k \in DOMAIN resp.posts |->
                  IF resp.posts[k].is_query
                  THEN [resp.posts[k] EXCEPT !.id = qid]
                  ELSE resp.posts[k]],
     edges |-> [k \in DOMAIN resp.edges |->
                  ServerEdge(IF resp.edges[k].source = QUERY_NODE THEN qid
                             ELSE resp.edges[k].source,
                             IF resp.edges[k].target = QUERY_NODE THEN qid
                             ELSE resp.edges[k].target,
                             resp.edges[k].similarity)]]

\* ServerSearch of an endpoint that reserves the id qid for the query node
ServerSearchWithId(r, qid) ==
    /\ r \in DOMAIN searches
    /\ searches[r].pc = "sent"
    /\ LET req == searches[r]
       IN IF AnsweredEarly(req)
          THEN searches' = [searches EXCEPT ![r] = EarlyOutcome(req)]
          ELSE \/ searches' = [searches EXCEPT ![r] =
                      Outcome(req, ErrorResponse("EmbeddingProviderError"), 1, 0)]
               \/ \E cand \in match_posts(posts, Embed(req.query), req.threshold,
                                           req.limit) :
                     searches' = [searches EXCEPT ![r] =
                         Outcome(req,
                                 WithQueryId(BuildGraph(posts, req.query, cand,
                                                        req.edge_threshold), qid),
                                 1, 1)]
    /\ UNCHANGED <<storeVars, create, acked, clientVars>>

\* handleCardClick(node.data)
handleCardClick(id) == [isModalOpen |-> TRUE, selectedPost |-> id]

\* onNodeClick: every node of the graph has the type 'postCard'. The open
\* modal and the open overlay cover the graph, so nodes are clicked while
\* both are closed
onNodeClick(k) ==
    /\ currentPage = "home"
    /\ k \in DOMAIN nodes
    /\ ~postModal.isModalOpen
    /\ ~edgeOverlay.isOpen
    /\ postModal' =
         IF nodes[k].id = QUERY_NODE \/ nodes[k].id = QUERY_ROOT
         THEN postModal
         ELSE handleCardClick(nodes[k].id)
    /\ UNCHANGED <<storeVars, searches, create, acked, clientVars, edgeOverlay,
                   authVars, layout, submission, latest>>

\* handleCloseModal
handleCloseModal ==
    /\ postModal.isModalOpen
    /\ postModal' = ClosedModal
    /\ UNCHANGED <<storeVars, searches, create, acked, clientVars, edgeOverlay,
                   authVars, layout, submission, latest>>

\* no search was issued yet. inFlight: the request of the search issued last
\* has not been answered to the client; arrived: its response was ok and
\* nodes and edges are the graph loadGraphData made of it; cleared: the graph
\* was emptied by handleClearSearch or handleBackToHome after that search
NoLatest ==
    [inFlight |-> FALSE, arrived |-> FALSE, nodes |-> <<>>, edges |-> <<>>,
     cleared |-> FALSE]

\* the history after handleSearch was called with the text searchQuery
LatestIssued(searchQuery) ==
    IF IsBlank(searchQuery) THEN latest
    ELSE [inFlight |-> TRUE, arrived |-> FALSE, nodes |-> <<>>, edges |-> <<>>,
          cleared |-> FALSE]

\* the history after loadGraphData received the response of request r:
\* requests are kept in the order they were issued, so the request of the
\* search issued last is the last one in flight
LatestArrived(r) ==
    IF latest.inFlight /\ r = Len(searches)
    THEN [latest EXCEPT !.inFlight = FALSE,
                        !.arrived = searches[r].resp.status = "ok",
                        !.nodes = GraphNodes(searches[r].resp),
                        !.edges = GraphEdges(searches[r].resp)]
    ELSE latest

\* the history after the graph was emptied
LatestCleared == [latest EXCEPT !.cleared = TRUE]

\* no layout computed yet
NoLayout == [numPosts |-> 0, index |-> 0, hasQuery |-> FALSE, x |-> 0, y |-> 0]

\* the authentication state after the App was loaded without a session
InitAuthDone ==
    /\ localStorage = Storage(Absent, Absent, Absent, Absent)
    /\ isLoggedIn = FALSE
    /\ isLoading = FALSE
    /\ authCall = IdleCall
    /\ authCheck = [pc |-> "done", token |-> Absent, status |-> -1]
    /\ logout = [pc |-> "idle", sent |-> FALSE, outcome |-> -1]
    /\ login = IdleLogin

\* the CreatePost page and the post modal before anything was done with them
InitPages ==
    /\ submission = IdleSubmission
    /\ postModal = ClosedModal
    /\ latest = NoLatest

\* the initial state of the components outside search and creation
InitAux ==
    /\ edgeOverlay = ClosedOverlay
    /\ InitAuthDone
    /\ layout = NoLayout
    /\ InitPages

----------------------------------------------------------------------------
(* Initial state *)

IdleCreate ==
    [pc |-> "idle", isSubmitting |-> FALSE, content |-> <<>>, id |-> 0, ok |-> FALSE]

Init ==
    /\ posts = <<>>
    /\ nn = NoCall
    /\ lastVec = [id \in PostIds |-> NULL]
    /\ searches = <<>>
    /\ create = IdleCreate
    /\ acked = {}
    /\ nodes = <<>>
    /\ edges = <<>>
    /\ isSearching = FALSE
    /\ currentPage = "home"
    /\ lastCall = "none"
    /\ InitAux

----------------------------------------------------------------------------
(* The store on its own: rows, upserts and nearest-neighbour queries *)

StoreNext ==
    \/ UNCHANGED nonStoreVars /\ \E id \in PostIds : InsertPost(id)
    \/ UNCHANGED nonStoreVars
         /\ \E id \in PostIds, v \in StoredVectors \cup WrongVectors : Upsert(id, v)
    \/ UNCHANGED nonStoreVars
         /\ \E q \in QueryVectors, k \in StoreCounts, t \in StoreThresholds :
               NearestNeighbors(q, k, t)

SpecStore ==
    Init /\ [][StoreNext]_vars

----------------------------------------------------------------------------
(* Semantic search: the App component, other callers and the endpoint, over
   a corpus that is already stored when the App is loaded *)

\* the rows a post of the given id and content can have: embedded or not
RowsOf(id, content) ==
    { [id |-> id, content |-> content, embedding |-> e] :
        e \in {NULL, Embed(content)} }

\* the tables of n posts, created in the order of their ids
RECURSIVE Tables(_)
Tables(n) ==
    IF n = 0 THEN { <<>> }
    ELSE { Append(t, row) :
             t \in Tables(n - 1),
             row \in UNION { RowsOf(n, c) : c \in PostTexts } }

Corpora == UNION { Tables(n) : n \in 0..MaxPosts }

InitCorpus ==
    /\ posts \in Corpora
    /\ nn = NoCall
    /\ lastVec = [id \in PostIds |->
                    IF id \in DOMAIN posts THEN posts[id].embedding ELSE NULL]
    /\ searches = <<>>
    /\ create = IdleCreate
    /\ acked = {}
    /\ nodes = <<>>
    /\ edges = <<>>
    /\ isSearching = FALSE
    /\ currentPage = "home"
    /\ lastCall = "none"
    /\ InitAux

\* the connections the user draws: from the right handle of a node to the
\* top handle of a node
Connections ==
    [source : PostIds \cup {QUERY_NODE}, target : PostIds \cup {QUERY_NODE},
     sourceHandle : {"c"}, targetHandle : {"a"}]

Next ==
    \/ UNCHANGED auxVars /\ \E q \in Queries : handleSearch(q)
    \/ UNCHANGED auxVars /\ handleClearSearch
    \/ UNCHANGED auxVars /\ handleBackToHome
    \/ UNCHANGED auxVars /\ \E params \in Connections : onConnect(params)
    \/ UNCHANGED auxVars /\ \E r \in 1..MaxSearches : LoadGraphDataResponse(r)
    \/ UNCHANGED auxVars /\ \E r \in 1..MaxSearches : FetchFails(r)
    \/ UNCHANGED auxVars /\ \E req \in ApiRequests : ApiSearch(req)
    \/ UNCHANGED auxVars /\ \E r \in 1..MaxSearches : ApiReceive(r)
    \/ UNCHANGED auxVars /\ \E r \in 1..MaxSearches : ServerSearch(r)

Spec == InitCorpus /\ [][Next]_vars

----------------------------------------------------------------------------
(* Creating posts while the client searches: the CreatePost page, the
   create-post endpoint, and searches of the App, from an empty store *)

CreateNext ==
    \/ UNCHANGED auxVars /\ handleNavigateToCreatePost
    \/ UNCHANGED auxVars
         /\ \E title \in Titles, content \in Contents, imageFile, uploadOk \in BOOLEAN :
               handleSubmit(title, content, imageFile, uploadOk)
    \/ UNCHANGED auxVars /\ ServerCreateInsert
    \/ UNCHANGED auxVars /\ ServerCreateEmbed
    \/ UNCHANGED auxVars /\ ServerCreateReject
    \/ UNCHANGED auxVars /\ ReceiveCreateResponse
    \/ UNCHANGED auxVars /\ handlePostCreated
    \/ UNCHANGED auxVars /\ handleBackToHome
    \/ UNCHANGED auxVars /\ \E q \in Queries : handleSearch(q)
    \/ UNCHANGED auxVars /\ \E r \in 1..MaxSearches : ServerSearch(r)
    \/ UNCHANGED auxVars /\ \E r \in 1..MaxSearches : LoadGraphDataResponse(r)

SpecCreate == Init /\ [][CreateNext]_vars

----------------------------------------------------------------------------
(* Relationship details: the client searches and opens the overlay of the
   edges it shows, over a corpus that is already stored *)

OverlayNext ==
    \/ UNCHANGED auxVars /\ \E q \in Queries : handleSearch(q)
    \/ UNCHANGED auxVars /\ \E r \in 1..MaxSearches : ServerSearch(r)
    \/ UNCHANGED auxVars /\ \E r \in 1..MaxSearches : LoadGraphDataResponse(r)
    \/ UNCHANGED <<authVars, layout, pageVars>> /\ \E k \in 1..MaxEdges : onEdgeClick(k)
    \/ UNCHANGED <<authVars, layout, pageVars>>
         /\ \E outcome \in RelationshipOutcomes : fetchRelationshipDetails(outcome)
    \/ UNCHANGED <<authVars, layout, pageVars>> /\ handleCloseEdgeOverlay

SpecOverlay == InitCorpus /\ [][OverlayNext]_vars

----------------------------------------------------------------------------
(* Authentication: the App is loaded with some localStorage, checks the
   session, and then authenticated calls and logouts take place *)

InitAuth ==
    /\ posts = <<>>
    /\ nn = NoCall
    /\ lastVec = [id \in PostIds |-> NULL]
    /\ searches = <<>>
    /\ create = IdleCreate
    /\ acked = {}
    /\ nodes = <<>>
    /\ edges = <<>>
    /\ isSearching = FALSE
    /\ currentPage = "home"
    /\ lastCall = "none"
    /\ edgeOverlay = ClosedOverlay
    /\ layout = NoLayout
    /\ InitPages
    /\ localStorage \in InitialStorages
    /\ isLoggedIn = FALSE
    /\ isLoading = TRUE
    /\ authCall = IdleCall
    /\ authCheck = [pc |-> "start", token |-> Absent, status |-> -1]
    /\ logout = [pc |-> "idle", sent |-> FALSE, outcome |-> -1]
    /\ login = IdleLogin

AuthNext ==
    \/ checkAuthStatus
    \/ \E status \in Statuses : checkAuthStatusResponse(status)
    \/ authenticatedFetch
    \/ authenticatedXHR
    \/ \E status \in Statuses : FirstResponse(status)
    \/ \E outcome \in RefreshOutcomes : refreshAccessToken(outcome)
    \/ AfterRefresh
    \/ \E status \in Statuses : RetryResponse(status)
    \/ handleLogout
    \/ \E status \in Statuses : handleLogoutResponse(status)
    \/ handleNavigateToProfile /\ UNCHANGED auxVars

SpecAuth == InitAuth /\ [][AuthNext]_vars

----------------------------------------------------------------------------
(* Logging in: the App is loaded, the user opens the Login page, submits the
   form, and logs out again *)

LoginNext ==
    \/ checkAuthStatus
    \/ \E status \in Statuses : checkAuthStatusResponse(status)
    \/ handleNavigateToLogin /\ UNCHANGED auxVars
    \/ handleBackToHome /\ UNCHANGED auxVars
    \/ \E email \in Emails, password \in Passwords : LoginSubmit(email, password)
    \/ \E outcome \in LoginOutcomes : LoginResponse(outcome)
    \/ LoginTimer
    \/ handleLogout
    \/ \E status \in Statuses : handleLogoutResponse(status)

SpecLogin == InitAuth /\ [][LoginNext]_vars

----------------------------------------------------------------------------
(* Clicking nodes and edges of the displayed graph, with an endpoint that
   may reserve any of the ids of QueryNodeIds for the query node *)

ClickNext ==
    \/ UNCHANGED auxVars /\ \E q \in Queries : handleSearch(q)
    \/ UNCHANGED auxVars
         /\ \E r \in 1..MaxSearches, qid \in QueryNodeIds : ServerSearchWithId(r, qid)
    \/ UNCHANGED auxVars /\ \E r \in 1..MaxSearches : LoadGraphDataResponse(r)
    \/ \E k \in 1..(MaxPosts + 1) : onNodeClick(k)
    \/ handleCloseModal
    \/ UNCHANGED <<authVars, layout, pageVars>>
         /\ ~postModal.isModalOpen
         /\ \E k \in 1..MaxEdges : onEdgeClick(k)
    \/ UNCHANGED <<authVars, layout, pageVars>>
         /\ \E outcome \in RelationshipOutcomes : fetchRelationshipDetails(outcome)
    \/ UNCHANGED <<authVars, layout, pageVars>> /\ handleCloseEdgeOverlay

SpecClick == InitCorpus /\ [][ClickNext]_vars

----------------------------------------------------------------------------
(* Searches in flight at the same time: the Enter key starts a search while
   another waits for its response, responses arrive in any order, and the
   graph is emptied while requests are in flight *)

RaceNext ==
    \/ UNCHANGED otherVars /\ \E q \in Queries : handleSearch(q) /\ latest' = LatestIssued(q)
    \/ UNCHANGED otherVars /\ \E r \in 1..MaxSearches : ServerSearch(r) /\ UNCHANGED latest
    \/ UNCHANGED otherVars
         /\ \E r \in 1..MaxSearches :
               LoadGraphDataResponse(r) /\ latest' = LatestArrived(r)
    \/ UNCHANGED otherVars /\ \E r \in 1..MaxSearches : FetchFails(r) /\ UNCHANGED latest
    \/ UNCHANGED otherVars /\ handleClearSearch /\ latest' = LatestCleared
    \/ UNCHANGED otherVars /\ handleBackToHome /\ latest' = LatestCleared

SpecRace == InitCorpus /\ [][RaceNext]_vars

----------------------------------------------------------------------------
(* Submitting the CreatePost form: the page is opened, the form is submitted
   with and without an image, and onPostCreated leads back to the home page *)

SubmitNext ==
    \/ MountCreatePost
    \/ \E title \in Titles, content \in Contents, imageFile \in BOOLEAN :
          handleSubmitStart(title, content, imageFile)
    \/ \E outcome \in UploadOutcomes : uploadImage(outcome)
    \/ \E outcome \in CreateOutcomes : handleSubmitResponse(outcome)
    \/ onPostCreated

SpecSubmit == Init /\ [][SubmitNext]_vars

----------------------------------------------------------------------------
(* Layout of the graph nodes in loadGraphData. Math.random() is drawn in
   thousandths, Math.cos and Math.sin are rounded to thousandths, and
   positions are kept in millionths of a pixel, so that the products are
   computed without a further rounding *)

MaxLayoutPosts == 7

\* the denominator of the fixed-point numbers
Milli == 1000

\* one pixel, in the unit of the positions
Pixel == Milli * Milli

\* the outcomes of Math.random(), in thousandths: a value u stands for
\* u / Milli, which lies in [0, 1)
RandomValues == {0, 500, 669, 925, 999}

\* Math.cos((index / numPosts) * 2 * Math.PI) in thousandths: row numPosts,
\* column index + 1
CosTable ==
    << <<1000>>,
       <<1000, -1000>>,
       <<1000, -500, -500>>,
       <<1000, 0, -1000, 0>>,
       <<1000, 309, -809, -809, 309>>,
       <<1000, 500, -500, -1000, -500, 500>>,
       <<1000, 623, -223, -901, -901, -223, 623>>,
       <<1000, 707, 0, -707, -1000, -707, 0, 707>> >>

\* Math.sin((index / numPosts) * 2 * Math.PI) in thousandths
SinTable ==
    << <<0>>,
       <<0, 0>>,
       <<0, 866, -866>>,
       <<0, 1000, 0, -1000>>,
       <<0, 951, 588, -588, -951>>,
       <<0, 866, 866, 0, -866, -866>>,
       <<0, 782, 975, 434, -434, -975, -782>>,
       <<0, 707, 1000, 707, 0, -707, -1000, -707>> >>

\* radius = 300 + Math.random() * 200, in thousandths of a pixel
Radius(u) == 300 * Milli + u * 200

\* Math.random() * 100, in thousandths of a pixel
Jitter(u) == u * 100

\* x = Math.cos(angle) * radius + 400 + Math.random() * 100
PostX(index, numPosts, ur, ux) ==
    CosTable[numPosts][index + 1] * Radius(ur) + 400 * Pixel + Jitter(ux) * Milli

\* y = Math.sin(angle) * radius + 300 + Math.random() * 100
PostY(index, numPosts, ur, uy) ==
    SinTable[numPosts][index + 1] * Radius(ur) + 300 * Pixel + Jitter(uy) * Milli

\* position: { x: 400, y: 100 } of the query node
QueryPosition == [x |-> 400 * Pixel, y |-> 100 * Pixel]

\* the position loadGraphData gives to the post at `index` of `numPosts`
\* actual posts; the three values are the outcomes of the three calls of
\* Math.random() in the order of the code, and hasQuery says whether the
\* response has a query node
PostPosition(numPosts, index, hasQuery, ur, ux, uy) ==
    [numPosts |-> numPosts, index |-> index, hasQuery |-> hasQuery,
     x |-> PostX(index, numPosts, ur, ux),
     y |-> PostY(index, numPosts, ur, uy)]

\* actualPosts.map(...) on a response with numPosts posts: the first post;
\* map is synchronous, so the posts of the response before were all placed
LayoutFirstPost(numPosts, hasQuery, ur, ux, uy) ==
    /\ layout.index + 1 >= layout.numPosts
    /\ layout' = PostPosition(numPosts, 0, hasQuery, ur, ux, uy)
    /\ UNCHANGED <<storeVars, searches, create, acked, clientVars, edgeOverlay,
                   authVars, pageVars>>

\* actualPosts.map(...): the post after the one placed last
LayoutNextPost(ur, ux, uy) ==
    /\ layout.index + 1 < layout.numPosts
    /\ layout' = PostPosition(layout.numPosts, layout.index + 1,
                              layout.hasQuery, ur, ux, uy)
    /\ UNCHANGED <<storeVars, searches, create, acked, clientVars, edgeOverlay,
                   authVars, pageVars>>

LayoutNext ==
    \/ \E numPosts \in 1..MaxLayoutPosts, hasQuery \in BOOLEAN :
         \E ur, ux, uy \in RandomValues :
             LayoutFirstPost(numPosts, hasQuery, ur, ux, uy)
    \/ \E ur, ux, uy \in RandomValues : LayoutNextPost(ur, ux, uy)

SpecLayout == Init /\ [][LayoutNext]_vars

----------------------------------------------------------------------------
(* Properties *)

\* the edge is attached to the query node
IsQueryEdge(e) == e.source = QUERY_NODE \/ e.target = QUERY_NODE

\* the text is empty or consists of whitespace only
OnlyWhitespace(text) == \A i \in DOMAIN text : text[i] = WS

Responded == { r \in DOMAIN searches : searches[r].pc = "responded" }

\* the edges between two posts in a sequence of edges that carry a similarity
PostEdges(eds) ==
    { k \in DOMAIN eds : eds[k].hasData /\ ~IsQueryEdge(eds[k]) }

\* C1: no post-to-post edge of a returned graph, nor of the graph the client
\* built from a response, has a similarity <= the edge_threshold of its
\* search, and its similarity is the one of the stored vectors; edges of the
\* query node are exempt
C1_EdgesAboveThreshold ==
    /\ \A r \in Responded :
         \A k \in PostEdges(searches[r].resp.edges) :
            LET e == searches[r].resp.edges[k]
            IN /\ e.similarity > searches[r].edge_threshold
               /\ e.similarity = similarity(posts, e.source, e.target)
    /\ \A k \in PostEdges(edges) :
         /\ edges[k].similarity > CLIENT_EDGE_THRESHOLD
         /\ edges[k].similarity = similarity(posts, edges[k].source, edges[k].target)

\* the client shows an edge between two posts, and an edge of the query node
\* that is below the edge threshold
C1_Witness ==
    /\ PostEdges(edges) # {}
    /\ \E r \in Responded : \E k \in DOMAIN searches[r].resp.edges :
          /\ IsQueryEdge(searches[r].resp.edges[k])
          /\ searches[r].resp.edges[k].similarity <= searches[r].edge_threshold

\* the nodes of a sequence of nodes that stand for posts
PostNodeCount(ns) == Cardinality({ k \in DOMAIN ns : ~ns[k].query })

\* C3: the matched posts of a response never outnumber the limit of its
\* request, and neither do the post nodes the client builds from it; the
\* query node is not counted
C3_MatchedWithinLimit ==
    /\ \A r \in Responded :
         /\ Len(ActualPosts(searches[r].resp)) <= searches[r].limit
         /\ PostNodeCount(GraphNodes(searches[r].resp)) <= searches[r].limit
    /\ PostNodeCount(nodes) <= CLIENT_LIMIT

\* a response that holds as many posts as its limit allows while more rows
\* pass the threshold, query node on top
C3_Witness ==
    \E r \in Responded :
        /\ Len(ActualPosts(searches[r].resp)) = searches[r].limit
        /\ Len(searches[r].resp.posts) = searches[r].limit + 1
        /\ Cardinality({ i \in DOMAIN posts :
                /\ posts[i].embedding # NULL
                /\ CosineSimilarity(posts[i].embedding, Embed(searches[r].query))
                     > searches[r].threshold }) > searches[r].limit

\* C4 (state part): no request of the client carries an empty or
\* whitespace-only query, and a request with such a query gets an empty graph
\* without any call of the embedding provider or of the store
C4_BlankNeverEmbedded ==
    \A r \in DOMAIN searches :
        OnlyWhitespace(searches[r].query) =>
            /\ searches[r].from # "client"
            /\ searches[r].embedCalls = 0
            /\ searches[r].storeCalls = 0
            /\ searches[r].resp.posts = <<>>
            /\ searches[r].resp.edges = <<>>

\* C4 (step part): a call of handleSearch or loadGraphData with an empty or
\* whitespace-only query sends no request, and loadGraphData leaves the graph
\* empty
C4_BlankStep ==
    (\/ handleClearSearch
     \/ \E q \in Queries : OnlyWhitespace(q) /\ handleSearch(q))
    => /\ searches' = searches
       /\ lastCall' = "loadGraphData: no query" => (nodes' = <<>> /\ edges' = <<>>)

\* C4: an empty or whitespace-only query yields an empty graph and never
\* reaches the embedding provider; handleSearch and loadGraphData send no
\* request for it
C4_BlankQuery == [](C4_BlankNeverEmbedded) /\ [][C4_BlankStep]_vars

\* loadGraphData was called without a query while a graph was requested, and
\* a whitespace-only request of another caller was answered
C4_Witness ==
    /\ lastCall = "loadGraphData: no query"
    /\ nodes = <<>>
    /\ \E r \in Responded :
          OnlyWhitespace(searches[r].query) /\ searches[r].resp.status = "ok"

PostIdsOf(ps) == { ps[k].id : k \in DOMAIN ps }

\* C5: both endpoints of every edge are nodes of the same graph, in every
\* response and in the graph the client shows; the posts of a response are
\* rows that pass the match threshold of the request
C5_EdgesWithinGraph ==
    /\ \A k \in DOMAIN edges :
         edges[k].source \in NodeIds /\ edges[k].target \in NodeIds
    /\ \A r \in Responded :
         LET resp == searches[r].resp
         IN /\ \A k \in DOMAIN resp.edges :
                 /\ resp.edges[k].source \in PostIdsOf(resp.posts)
                 /\ resp.edges[k].target \in PostIdsOf(resp.posts)
            /\ \A k \in DOMAIN resp.posts :
                 resp.posts[k].id # QUERY_NODE =>
                    /\ HasRow(posts, resp.posts[k].id)
                    /\ posts[RowOf(posts, resp.posts[k].id)].embedding # NULL
                    /\ CosineSimilarity(posts[RowOf(posts, resp.posts[k].id)].embedding,
                                        Embed(searches[r].query)) > searches[r].threshold

\* the client shows a graph with the query node, its edges, and a stored
\* post that is not part of the graph
C5_Witness ==
    /\ \E k \in DOMAIN edges : IsQueryEdge(edges[k])
    /\ \E k \in DOMAIN nodes : nodes[k].query
    /\ \E i \in DOMAIN posts : posts[i].embedding # NULL /\ posts[i].id \notin NodeIds

\* C6: the graph never holds two edges for one unordered pair of nodes, and
\* never an edge from a node to itself
C6_NoDuplicateNoSelfEdge ==
    /\ \A k \in DOMAIN edges : edges[k].source # edges[k].target
    /\ \A j, k \in DOMAIN edges :
         j # k => {edges[j].source, edges[j].target}
                    # {edges[k].source, edges[k].target}

\* C10: a search whose threshold or edge_threshold lies outside [0,1] is
\* answered with ValidationError, without any call of the embedding provider
\* or of the store
C10_ThresholdsValidated ==
    \A r \in DOMAIN searches :
        (\/ searches[r].threshold < 0 \/ searches[r].threshold > 100
         \/ searches[r].edge_threshold < 0 \/ searches[r].edge_threshold > 100)
        => /\ searches[r].embedCalls = 0
           /\ searches[r].storeCalls = 0
           /\ searches[r].resp.status \in {"none", "ValidationError"}
           /\ searches[r].resp.posts = <<>>

\* a request with threshold 1.01 and one with edge_threshold -0.01 were both
\* answered with ValidationError
C10_Witness ==
    /\ \E r \in Responded :
          searches[r].threshold = 101 /\ searches[r].resp.status = "ValidationError"
    /\ \E r \in Responded :
          searches[r].edge_threshold < 0 /\ searches[r].resp.status = "ValidationError"

\* the result of the last nearest-neighbour call, when there is one
IsNNResult == nn.op = "nearestNeighbors" /\ nn.status = "ok"

\* the rows that have an embedding more similar to q than the threshold
AboveThreshold(tbl, q, threshold) ==
    { i \in DOMAIN tbl :
        /\ tbl[i].embedding # NULL
        /\ 100 * Dot(tbl[i].embedding, q)
             > threshold * ISqrt(Dot(tbl[i].embedding, tbl[i].embedding) * Dot(q, q)) }

UpsertRejected(call) == call.op = "upsert" /\ call.status = "DimensionMismatchError"

\* C8 (state part): every stored vector has the dimension of the store, and
\* the upsert of a vector of another dimension is rejected
C8_OnlyDimensionD ==
    /\ \A i \in DOMAIN posts :
         posts[i].embedding = NULL \/ Len(posts[i].embedding) = D
    /\ (nn.op = "upsert" /\ Len(nn.vec) # D) => nn.status = "DimensionMismatchError"
    /\ (nn.op = "upsert" /\ Len(nn.vec) = D) => nn.status = "ok"

\* C8 (step part): a rejected upsert leaves the store as it was, so every
\* nearest-neighbour query has the same results after it as before
C8_RejectedStep ==
    UpsertRejected(nn') =>
        /\ posts' = posts
        /\ \A q \in QueryVectors, t \in StoreThresholds :
             match_posts(posts', q, t, MaxRows) = match_posts(posts, q, t, MaxRows)

\* C8: the upsert of a vector whose length is not D is rejected with
\* DimensionMismatchError and leaves the store unchanged; no vector of
\* another dimension is ever stored
C8_DimensionMismatch == [](C8_OnlyDimensionD) /\ [][C8_RejectedStep]_vars

\* an upsert of a wrong-dimension vector for a post that has an embedding
\* was rejected
C8_Witness ==
    /\ UpsertRejected(nn)
    /\ HasRow(posts, nn.id)
    /\ posts[RowOf(posts, nn.id)].embedding # NULL

\* the table the last accepted vectors describe
LatestTable ==
    [i \in DOMAIN posts |-> [posts[i] EXCEPT !.embedding = lastVec[posts[i].id]]]

\* C9: the store holds one entry per post id, its vector is the last one
\* upserted for that id, and nearest-neighbour results are computed from
\* the latest vectors only
C9_LatestVectorOnly ==
    /\ \A i, j \in DOMAIN posts : i # j => posts[i].id # posts[j].id
    /\ \A i \in DOMAIN posts : posts[i].embedding = lastVec[posts[i].id]
    /\ (nn.op = "upsert" /\ nn.status = "ok") =>
          /\ HasRow(posts, nn.id)
          /\ posts[RowOf(posts, nn.id)].embedding = nn.vec
    /\ IsNNResult => nn.result \in match_posts(LatestTable, nn.vec, nn.threshold, nn.k)

\* an id that had a vector was upserted with a different vector
C9_Witness ==
    /\ nn.op = "upsert"
    /\ nn.status = "ok"
    /\ nn.prev # NULL
    /\ nn.prev # nn.vec

\* C7: a post whose creation the client reported as successful has a stored
\* embedding, the one of its content, and so passes the filter of match_posts
\* for every query it is similar enough to
C7_AckedPostsSearchable ==
    \A id \in acked :
        /\ HasRow(posts, id)
        /\ posts[RowOf(posts, id)].embedding # NULL
        /\ posts[RowOf(posts, id)].embedding = Embed(posts[RowOf(posts, id)].content)
        /\ \A q \in Queries :
             (~OnlyWhitespace(q)
              /\ RowOf(posts, id) \in AboveThreshold(posts, Embed(q), CLIENT_THRESHOLD))
             => RowOf(posts, id) \in Eligible(posts, Embed(q), CLIENT_THRESHOLD)

\* a search answered after the acknowledgement returns the acknowledged
\* post, while another post, whose embedding failed, is stored without one
C7_Witness ==
    /\ acked # {}
    /\ \E i \in DOMAIN posts : posts[i].embedding = NULL /\ posts[i].id \notin acked
    /\ \E r \in Responded : \E k \in DOMAIN searches[r].resp.posts :
          searches[r].resp.posts[k].id \in acked

\* the request was valid, reached the store, and no stored post is more
\* similar to its query than its threshold
MatchedNothing(req) ==
    /\ ~OnlyWhitespace(req.query)
    /\ 0 <= req.threshold /\ req.threshold <= 100
    /\ 0 <= req.edge_threshold /\ req.edge_threshold <= 100
    /\ req.storeCalls = 1
    /\ AboveThreshold(posts, Embed(req.query), req.threshold) = {}

\* C11 (state part): the answer to a valid query that matches no post is
\* the empty graph with status ok
C11_EmptyNotError ==
    \A r \in Responded :
        MatchedNothing(searches[r]) =>
            /\ searches[r].resp.status = "ok"
            /\ searches[r].resp.posts = <<>>
            /\ searches[r].resp.edges = <<>>

\* C11 (step part): when the client takes an ok response without posts, it
\* ends with no nodes and no edges and is no longer searching
C11_ClientStep ==
    \A r \in DOMAIN searches :
        (/\ searches[r].from = "client"
         /\ searches[r].pc = "responded"
         /\ searches[r].resp.status = "ok"
         /\ searches[r].resp.posts = <<>>
         /\ searches' = Remove(searches, r))
        => (nodes' = <<>> /\ edges' = <<>> /\ isSearching' = FALSE)

\* C11: a valid query that matches zero posts yields the empty graph, not
\* an error, and the client then shows no nodes and no edges
C11_ZeroMatchesEmptyGraph == [](C11_EmptyNotError) /\ [][C11_ClientStep]_vars

\* while the client shows the graph of an earlier search, a later search of
\* it over a corpus with embedded posts was answered with the empty graph
C11_Witness ==
    /\ nodes # <<>>
    /\ \E r \in Responded :
          /\ searches[r].from = "client"
          /\ MatchedNothing(searches[r])
          /\ searches[r].resp = EmptyGraph

\* C12: the result of match_posts is ordered by descending similarity, and
\* rows of equal similarity appear in the order in which they were inserted
C12_DescendingStable ==
    IsNNResult =>
        \A j, k \in DOMAIN nn.result :
            j < k =>
                /\ nn.result[j].similarity >= nn.result[k].similarity
                /\ nn.result[j].similarity = nn.result[k].similarity
                     => RowOf(posts, nn.result[j].id) < RowOf(posts, nn.result[k].id)

\* the part of C12 that the ORDER BY clause decides: descending similarity
C12_Descending ==
    IsNNResult =>
        \A j, k \in DOMAIN nn.result :
            j < k => nn.result[j].similarity >= nn.result[k].similarity

\* the entries of a sequence of response posts that are marked as the query
QueryMarked(ps) == { k \in DOMAIN ps : ps[k].id = QUERY_NODE \/ ps[k].is_query }

\* C13 (state part): no stored post has the id of the query node; a response
\* holds at most one query node, it carries the reserved id, and every other
\* entry is a stored post; the client shows at most one query node, and no
\* node of it is both the query node and a post
C13_QueryNodeApart ==
    /\ \A i \in DOMAIN posts : posts[i].id # QUERY_NODE
    /\ \A r \in Responded :
         LET ps == searches[r].resp.posts
         IN /\ Cardinality(QueryMarked(ps)) <= 1
            /\ \A k \in DOMAIN ps :
                 IF k \in QueryMarked(ps)
                 THEN ps[k].id = QUERY_NODE /\ ps[k].is_query /\ ~HasRow(posts, ps[k].id)
                 ELSE HasRow(posts, ps[k].id)
            /\ Len(QueryPosts(searches[r].resp)) + Len(ActualPosts(searches[r].resp))
                 = Len(ps)
            /\ Len(GraphNodes(searches[r].resp)) = Len(ps)
    /\ Cardinality({ k \in DOMAIN nodes : nodes[k].query }) <= 1
    /\ \A k \in DOMAIN nodes : nodes[k].query <=> nodes[k].id = QUERY_NODE
    /\ \A j, k \in DOMAIN nodes : j # k => nodes[j].id # nodes[k].id

\* C13 (step part): answering a search stores nothing
C13_SearchStoresNothing ==
    (\E r \in DOMAIN searches :
        /\ searches[r].pc = "sent"
        /\ r \in DOMAIN searches'
        /\ searches'[r].pc = "responded")
    => posts' = posts

OverlayEdgeShown(ov) ==
    \E k \in DOMAIN edges :
        /\ edges[k].hasData
        /\ ~IsQueryEdge(edges[k])
        /\ edges[k].source = ov.post1Id
        /\ edges[k].target = ov.post2Id
        /\ edges[k].similarity = ov.similarity

\* C14 (step): relationship details are requested only for an edge between
\* two posts that the displayed graph holds with its similarity, and neither
\* the request nor its answer, whatever the outcome, changes nodes or edges
C14_AnnotationStep ==
    /\ (edgeOverlay.pc = "idle" /\ edgeOverlay'.pc = "sent")
         => /\ nodes # <<>>
            /\ OverlayEdgeShown(edgeOverlay')
            /\ nodes' = nodes /\ edges' = edges
    /\ (edgeOverlay.pc = "sent" /\ edgeOverlay'.pc = "idle")
         => /\ nodes' = nodes /\ edges' = edges
            /\ ~edgeOverlay'.isLoading
            /\ edgeOverlay'.relationshipDetails \in {edgeOverlay.relationshipDetails, "details"}

\* C14: a failure of the relationship annotation is not fatal: the edge stays
\* in the graph with its similarity, and the graph is built and displayed
\* before any relationship details are requested
C14_AnnotationNonFatal == [][C14_AnnotationStep]_vars

\* the request for the details of a displayed edge has failed: the overlay is
\* open without details and the edge is still displayed
C14_Witness ==
    /\ edgeOverlay.isOpen
    /\ edgeOverlay.pc = "idle"
    /\ edgeOverlay.relationshipDetails = "null"
    /\ OverlayEdgeShown(edgeOverlay)

\* C15 (state part): one call sends at most two requests and calls the
\* refresh endpoint at most once; a second request was sent only after a 401
\* and a refresh that returned the new tokens, and it carries the refreshed
\* access token; a request was sent only with a stored access token
C15_RetryOnce ==
    /\ authCall.sent <= 2
    /\ authCall.refreshCalls <= 1
    /\ authCall.sent >= 1 => Truthy(authCall.token)
    /\ authCall.refreshCalls = 1 => authCall.firstStatus = 401
    /\ authCall.sent = 2 =>
         /\ authCall.firstStatus = 401
         /\ authCall.refreshCalls = 1
         /\ authCall.refreshReturn = "object"
         /\ authCall.retryToken = authCall.refreshed
    /\ (authCall.pc = "done" /\ authCall.sent = 0) => authCall.result = "thrown"

\* C15 (step part): a call that starts without a stored access token fails
\* without sending a request; the token a successful refresh returns is the
\* access token it stored
C15_CallStep ==
    /\ (authCall.pc \in {"idle", "done"} /\ authCall' # authCall
         /\ ~Truthy(localStorage.access_token))
         => (authCall'.pc = "done" /\ authCall'.sent = 0 /\ authCall'.result = "thrown")
    /\ (authCall.pc = "refresh" /\ authCall'.refreshReturn = "object")
         => localStorage'.access_token = authCall'.refreshed

\* C15: authenticatedFetch sends its request at most twice and refreshes at
\* most once per call; the second request follows a 401 and a successful
\* refresh and carries the refreshed token; without a stored access token
\* it throws before any request
C15_AuthenticatedFetchRetriesOnce == [](C15_RetryOnce) /\ [][C15_CallStep]_vars

\* a call of authenticatedFetch has ended after a 401, a refresh and a
\* second request with the new token, which was answered 401 again
C15_Witness ==
    /\ authCall.kind = "fetch"
    /\ authCall.pc = "done"
    /\ authCall.sent = 2
    /\ authCall.token = "t1"
    /\ authCall.retryToken = "t2"
    /\ authCall.result = "returned"

\* C17 (step part): when the refresh did not return tokens, the call removes
\* access_token, refresh_token and user_id and fails without sending the
\* request again; a refresh that returns null leaves localStorage unchanged
C17_RefreshFailedStep ==
    /\ (authCall.pc = "refreshed" /\ authCall.refreshReturn # "object"
         /\ authCall' # authCall)
         => /\ localStorage'.access_token = Absent
            /\ localStorage'.refresh_token = Absent
            /\ localStorage'.user_id = Absent
            /\ authCall'.pc = "done"
            /\ authCall'.result = "thrown"
            /\ authCall'.sent = 1
    /\ (authCall.pc \in {"request", "refresh"} /\ authCall'.pc = "refreshed"
         /\ authCall'.refreshReturn = "null")
         => localStorage' = localStorage

\* C17: on a 401 followed by a failed refresh, authenticatedFetch and
\* authenticatedXHR remove the tokens and the user id from localStorage and
\* fail without a second request; refreshAccessToken changes nothing when
\* it fails
C17_RefreshFailureClears == [][C17_RefreshFailedStep]_vars

\* a call has failed after a 401 and a refresh request that was turned down,
\* and the tokens that were stored are gone
C17_Witness ==
    /\ authCall.pc = "done"
    /\ authCall.firstStatus = 401
    /\ authCall.refreshCalls = 1
    /\ authCall.refreshReturn = "null"
    /\ authCall.result = "thrown"
    /\ authCall.token = "t1"
    /\ localStorage.access_token = Absent
    /\ localStorage.refresh_token = Absent

\* C18 (step part): what checkAuthStatus does when it ends
C18_CheckEnds ==
    (authCheck.pc # "done" /\ authCheck'.pc = "done") =>
        /\ isLoading' = FALSE
        /\ IF authCheck.pc = "start"
           THEN /\ ~(Truthy(localStorage.access_token) /\ Truthy(localStorage.user_id))
                /\ localStorage' = localStorage
                /\ isLoggedIn' = FALSE
           ELSE IF authCheck'.status = 401
           THEN /\ localStorage' = [localStorage EXCEPT !.access_token = Absent,
                                                        !.user_id = Absent]
                /\ isLoggedIn' = FALSE
           ELSE /\ localStorage' = localStorage
                /\ isLoggedIn' = TRUE

\* C18 (state part): the App is loading exactly until checkAuthStatus has
\* ended, and the profile request is sent only with a token and a user id
C18_LoadingUntilChecked ==
    /\ isLoading <=> authCheck.pc # "done"
    /\ authCheck.pc = "request" => Truthy(authCheck.token)

\* C18: checkAuthStatus removes access_token and user_id and logs the user
\* out only on a 401 of the profile endpoint; without a token or user id the
\* user is logged out and storage stays; on every other status and on a
\* network error the user stays logged in with storage unchanged; isLoading
\* becomes false in every case
C18_AuthCheck == [](C18_LoadingUntilChecked) /\ [][C18_CheckEnds]_vars

\* the profile request failed without a response: the App has finished
\* loading, the user is logged in and the token is still stored
C18_Witness ==
    /\ authCheck.pc = "done"
    /\ authCheck.status = 0
    /\ ~isLoading
    /\ isLoggedIn
    /\ localStorage.access_token = "t1"
    /\ localStorage.user_id = "u1"

\* C19 (step): when handleLogout ends, access_token and user_id are removed,
\* isLoggedIn is false and currentPage is 'home', with or without a logout
\* request and whatever became of it
C19_LogoutEnds ==
    (logout.pc # "done" /\ logout'.pc = "done") =>
        /\ localStorage'.access_token = Absent
        /\ localStorage'.user_id = Absent
        /\ isLoggedIn' = FALSE
        /\ currentPage' = "home"

\* C19: handleLogout always clears the session and updates the state
C19_LogoutAlwaysClears == [][C19_LogoutEnds]_vars

\* handleLogout, called with a stored token, has ended after its logout
\* request failed without a response
C19_Witness ==
    /\ logout.pc = "done"
    /\ logout.sent
    /\ logout.outcome = 0
    /\ currentPage = "home"
    /\ ~isLoggedIn
    /\ localStorage.access_token = Absent
    /\ localStorage.user_id = Absent

\* the response is ok and its data hold both access_token and user_id
OkWithBoth(outcome) ==
    /\ outcome.kind = "object"
    /\ outcome.status \in 200..299
    /\ outcome.access_token \notin {Absent, ""}
    /\ outcome.user_id \notin {Absent, ""}

\* the text has an "@" and, after it, a "." that is not its last character
HasAtAndDot(email) ==
    \E i, j \in DOMAIN email :
        email[i] = "@" /\ i < j /\ email[j] = "." /\ j < Len(email)

\* C20 (step part): a submission that fails validation sends no request; the
\* response step stores access_token and user_id exactly when the response
\* is ok and holds both, and otherwise leaves localStorage unchanged; onLogin
\* is called only after the tokens were stored
C20_LoginStep ==
    /\ (login.pc = "idle" /\ login'.pc = "request")
         => /\ HasAtAndDot(login'.email)
            /\ login'.password # <<>>
            /\ localStorage' = localStorage
    /\ (login.pc = "idle" /\ login' # login
         /\ ~validateForm(login'.email, login'.password))
         => (login'.pc = "idle" /\ localStorage' = localStorage
             /\ isLoggedIn' = isLoggedIn)
    /\ (login.pc = "request" /\ login'.pc # "request")
         => IF OkWithBoth(login'.outcome)
            THEN /\ login'.pc = "stored"
                 /\ localStorage' =
                      [localStorage EXCEPT !.access_token = login'.outcome.access_token,
                                           !.user_id = login'.outcome.user_id]
            ELSE /\ login'.pc = "idle"
                 /\ localStorage' = localStorage
                 /\ isLoggedIn' = isLoggedIn
    /\ (login'.onLogin /\ ~login.onLogin)
         => (login.pc = "stored" /\ OkWithBoth(login.outcome) /\ isLoggedIn')

\* C20 (state part): onLogin is pending or was called only for a response
\* that is ok and holds both access_token and user_id
C20_LoginState ==
    (login.pc = "stored" \/ login.onLogin) => OkWithBoth(login.outcome)

\* C20: Login writes access_token and user_id and calls onLogin only after
\* an ok response that contains both; a form that fails validation sends no
\* request; after an error response, an invalid body or a network error the
\* storage is unchanged and onLogin is not called
C20_LoginStoresOnSuccess == [](C20_LoginState) /\ [][C20_LoginStep]_vars

\* onLogin was called after a login with an email that has leading
\* whitespace: the tokens of the response are stored and the user is logged in
C20_Witness ==
    /\ login.onLogin
    /\ login.email = <<WS, "a", "@", "b", ".", "c">>
    /\ isLoggedIn
    /\ localStorage.access_token = "t3"
    /\ localStorage.user_id = "u2"

\* C16: the position of the query node, when the graph has one, differs
\* from the position of every post node of the same graph, for every number
\* of posts and every outcome of the random radius and jitter
C16_QueryAnchorDistinct ==
    (layout.numPosts > 0 /\ layout.hasQuery)
        => <<layout.x, layout.y>> # <<QueryPosition.x, QueryPosition.y>>

\* the upload response was ok and its body a JSON value other than null
UploadOk(outcome) == outcome \in { "nourl", "url" }

\* C21 (steps of handleSubmit): the create-post request is sent only with a
\* title and a content that are not blank and, with an image, after an upload
\* that succeeded; an upload that did not succeed ends the run with no request
\* sent; the run ends with isSubmitting false; a timer of onPostCreated is set
\* only by an ok response of the create-post request, and onPostCreated is
\* called only by such a timer
C21_SubmitStep ==
    /\ (submission'.requests > submission.requests)
         => /\ ~OnlyWhitespace(submission'.title)
            /\ ~OnlyWhitespace(submission'.content)
            /\ submission'.imageFile => UploadOk(submission'.upload)
    /\ (submission.pc = "uploading" /\ submission'.pc # "uploading"
          /\ ~UploadOk(submission'.upload))
         => /\ submission'.pc = "idle"
            /\ submission'.requests = 0
            /\ submission'.timers = submission.timers
            /\ ~submission'.isSubmitting
    /\ (submission.pc # "idle" /\ submission'.pc = "idle")
         => (~submission'.isSubmitting /\ ~submission'.isUploading)
    /\ (submission'.timers > submission.timers)
         => /\ submission.pc = "creating"
            /\ submission.requests = 1
            /\ submission'.response = "ok"
    /\ (submission'.called /\ ~submission.called) => submission.timers > 0

\* C21 (state part): isSubmitting is true only while a run of handleSubmit
\* waits for a response, and a run sends at most one create-post request
C21_SubmitState ==
    /\ submission.isSubmitting <=> submission.pc \in { "uploading", "creating" }
    /\ submission.isUploading <=> submission.pc = "uploading"
    /\ submission.pc = "uploading" => submission.requests = 0
    /\ submission.requests <= 1

\* C21: CreatePost.handleSubmit sends the create-post request only when title
\* and content are both non-blank after trimming and, when an image is
\* selected, only after the image upload has succeeded; a failed upload ends
\* the submission with no post created; isSubmitting is false again after
\* every outcome; onPostCreated is called only after a successful creation
C21_SubmitOnlyValid == [](C21_SubmitState) /\ [][C21_SubmitStep]_vars

\* onPostCreated was called after a post with an image was created: the
\* upload returned an image_url and the create-post response was ok
C21_Witness ==
    /\ submission.called
    /\ submission.upload = "url"
    /\ submission.imageUrl = "url"
    /\ submission.response = "ok"
    /\ ~submission.isSubmitting
    /\ currentPage = "home"

\* the node of the displayed graph that loadGraphData built from the query
\* node of the response has this id
IsDisplayedQueryNode(id) == \E k \in DOMAIN nodes : nodes[k].query /\ nodes[k].id = id

\* C22 (steps): a click that opens the post modal or selects a post does not
\* select the query node, and a click that opens the relationship overlay or
\* sends the relationship-details request is not on an edge of the query node
C22_ClickStep ==
    /\ (postModal'.isModalOpen /\ postModal' # postModal)
         => ~IsDisplayedQueryNode(postModal'.selectedPost)
    /\ ((edgeOverlay'.isOpen /\ ~edgeOverlay.isOpen)
          \/ (edgeOverlay'.pc = "sent" /\ edgeOverlay.pc # "sent"))
         => /\ ~IsDisplayedQueryNode(edgeOverlay'.post1Id)
            /\ ~IsDisplayedQueryNode(edgeOverlay'.post2Id)

\* C22: clicking the node that loadGraphData treats as the query node (id
\* 'query_node' or flagged is_query) never opens the post modal, and clicking
\* an edge attached to the query node never opens the relationship overlay
\* nor triggers a relationship-details request
C22_QueryNodeNotOpened == [][C22_ClickStep]_vars

\* C23: when several searches were in flight at the same time and all
\* responses have arrived, the displayed nodes and edges are those of the
\* query issued last (whose response was ok), whatever the order of arrival
C23_LatestQueryShown ==
    (searches = <<>> /\ latest.arrived /\ ~latest.cleared)
        => (nodes = latest.nodes /\ edges = latest.edges)

\* C24: after handleClearSearch or handleBackToHome has emptied the graph,
\* nodes and edges stay empty until the user issues a new search
C24_ClearedStaysEmpty == latest.cleared => (nodes = <<>> /\ edges = <<>>)

====